---- MODULE Spec2Model ----
(***************************************************************************)
(* Model of review-slot-guard-bot-common.                                  *)
(*                                                                         *)
(* Part I  - pkg/ydb: the review_requests and user_project_whitelist       *)
(*           tables, the store operations on them, and the lifecycle       *)
(*           engine's handlers and sweeps that call them.  Every store     *)
(*           operation is one database call and therefore one atomic       *)
(*           step; a handler reads in one step and writes in a later one.  *)
(* Part II - pkg/lockbox: the package-level payload cache.                 *)
(* Part III - pkg/ydb called directly: the project_families transaction,   *)
(*           the whitelist query, and lookup-then-create of a request.     *)
(* Part IV - pkg/timeutil, pkg/models, pkg/telegram: the pure functions.   *)
(***************************************************************************)
EXTENDS Integers, Sequences, FiniteSets, Bags, TLC

(***************************************************************************)
(* Bounds of the model.                                                    *)
(***************************************************************************)
MaxTime == 2

MaxSweepRequests == 2

MaxCancelCalls == 2

MaxDelay == 1

MaxObjects == 2

MaxFamilies == 2

MaxRequests == 2

MaxIdLen == 2

\* The wall clock takes the values 1..MaxTime (Unix seconds, never 0).
Times == 1..MaxTime

\* Part I follows the lifecycle of one booked slot: rows of review_requests
\* are independent of each other in every store operation.
Ids == {1}

\* The rows of the tables the whole-sweep runs of SweepSpec start from.
SweepIds == 1..MaxSweepRequests

Workers == {"w1", "w2"}

(***************************************************************************)
(* pkg/models: status constants and predicates.                            *)
(***************************************************************************)
StatusUnknownProjectReview == "UNKNOWN_PROJECT_REVIEW"

StatusKnownProjectReview == "KNOWN_PROJECT_REVIEW"

StatusWhitelisted == "WHITELISTED"

StatusNotWhitelisted == "NOT_WHITELISTED"

StatusNeedToApprove == "NEED_TO_APPROVE"

StatusWaitingForApprove == "WAITING_FOR_APPROVE"

StatusApproved == "APPROVED"

StatusCancelled == "CANCELLED"

StatusAutoCancelled == "AUTO_CANCELLED"

StatusAutoCancelledNotWhitelisted == "AUTO_CANCELLED_NOT_WHITELISTED"

EntryTypeFamily == "FAMILY"

EntryTypeProject == "PROJECT"

IsIntermediateStatus(status) ==
    status \in {StatusUnknownProjectReview, StatusKnownProjectReview,
                StatusWhitelisted, StatusNotWhitelisted,
                StatusNeedToApprove, StatusWaitingForApprove}

IsValidStatus(status) ==
    status \in {StatusUnknownProjectReview, StatusKnownProjectReview,
                StatusWhitelisted, StatusNotWhitelisted,
                StatusNeedToApprove, StatusWaitingForApprove,
                StatusApproved, StatusCancelled, StatusAutoCancelled,
                StatusAutoCancelledNotWhitelisted}

\* IsFinalStatus without the case of the non-whitelist auto-cancel.
IsFinalStatus_ThreeCases(status) ==
    status \in {StatusApproved, StatusCancelled, StatusAutoCancelled}

IsFinalStatus(status) ==
    status \in {StatusApproved, StatusCancelled, StatusAutoCancelled,
                StatusAutoCancelledNotWhitelisted}

(***************************************************************************)
(* Columns.  An Optional<Timestamp> column that is NULL is Null; the row   *)
(* scanner maps NULL to 0 and 0 to a nil pointer.  An Optional<Utf8>       *)
(* column that is NULL is NoText (scanned as "").                          *)
(***************************************************************************)
Null == 0

NoText == ""

\* What the external project graph resolves for the booking of a request.
ReviewerOf(id) == "alice"

SlotOf(id) == id

ProjectOf(id) == IF id = 1 THEN "p1" ELSE "p2"

FamilyOf(id) == "f1"

Slots == {SlotOf(id) : id \in Ids \cup SweepIds}

\* The whitelist entries the reviewer may add.
WhitelistEntries ==
    { [reviewer_login |-> "alice", entry_type |-> EntryTypeProject, name |-> "p1"],
      [reviewer_login |-> "alice", entry_type |-> EntryTypeFamily, name |-> "f1"] }

VARIABLES
    review_requests,         \* table review_requests: id -> row
    user_project_whitelist,  \* table user_project_whitelist: set of rows
    now,                     \* time.Now().Unix()
    cancelCalls,             \* slot -> number of CancelSlot calls issued
    pc,                      \* worker -> position in its handler
    job,                     \* worker -> what the handler read
    sweepRuns,               \* SweepSpec: whole sweep runs done so far
    afterFirst,              \* SweepSpec: store state after the first run
    payloadCache,            \* lockbox: *LockboxPayload, Nil or a heap address
    cacheExpiry,             \* lockbox: time.Time the cached payload expires at
    client,                  \* lockbox: the PayloadServiceClient, "nil" or "ok"
    clientOnce,              \* lockbox: clientOnce has run
    heap,                    \* LockboxPayload objects: address -> Users map
    secret,                  \* Users map of the payload stored in Lockbox
    clock,                   \* lockbox: time.Now(), in minutes
    cpc,                     \* caller -> position in its call
    call,                    \* caller -> operation, login and payload pointer
    ret,                     \* the call the step just taken ended: caller, operation, tokens, error
    cacheMutex,              \* lockbox: the sync.RWMutex, its readers and its writer
    user_settings,           \* table user_settings: set of rows
    initOnce,                \* pkg/ydb: initOnce has run
    tablesCreated,           \* the tables of createTables exist in the database
    provider,                \* the S21AuthProvider: token, schoolID, contextHeaders
    project_families,        \* table project_families: set of rows
    tx,                      \* the UpsertProjectFamilies transaction under way
    reply                    \* what the last store or collaborator call of Part III returned

storeVars == <<review_requests, user_project_whitelist, now, cancelCalls, pc, job>>

sweepVars == <<sweepRuns, afterFirst>>

restVars == <<user_settings, initOnce, tablesCreated, provider>>

lockboxVars == <<payloadCache, cacheExpiry, client, clientOnce, heap, secret,
                 clock, cpc, call, ret, cacheMutex>>

tableVars == <<project_families, tx, reply>>

vars == <<storeVars, sweepVars, restVars, lockboxVars, tableVars>>

(***************************************************************************)
(* pkg/ydb store operations, as functions of the table.                    *)
(***************************************************************************)
\* INSERT INTO review_requests (id, reviewer_login, review_start_time,
\* calendar_slot_id, status, created_at): the other columns are NULL.
CreateReviewRequest(t, id, req) ==
    [i \in DOMAIN t \cup {id} |->
        IF i = id
        THEN [reviewer_login |-> req.reviewer_login,
              calendar_slot_id |-> req.calendar_slot_id,
              status |-> req.status,
              project_name |-> NoText,
              family_label |-> NoText,
              decision_deadline |-> Null,
              non_whitelist_cancel_at |-> Null,
              decided_at |-> Null]
        ELSE t[i]]

\* SELECT ... FROM review_requests WHERE calendar_slot_id = $calendar_slot_id:
\* the rows the result set holds (the call scans the first, or returns
\* "review request not found with calendar_slot_id").
GetReviewRequestByCalendarSlotID(t, calendarSlotID) ==
    { id \in DOMAIN t : t[id].calendar_slot_id = calendarSlotID }

\* UPDATE review_requests SET status, decided_at WHERE id = $id
UpdateReviewRequestStatus(t, id, status, decidedAt) ==
    IF id \in DOMAIN t
    THEN [t EXCEPT ![id].status = status, ![id].decided_at = decidedAt]
    ELSE t

\* UPDATE ... SET project_name, family_label, notification_id, status
UpdateReviewRequestWithProjectInfo(t, id, projectName, familyLabel) ==
    IF id \in DOMAIN t
    THEN [t EXCEPT ![id].project_name = projectName,
                   ![id].family_label = familyLabel,
                   ![id].status = StatusKnownProjectReview]
    ELSE t

\* UPDATE ... SET decision_deadline, telegram_message_id, status
UpdateReviewRequestToWaitingForApprove(t, id, decisionDeadline) ==
    IF id \in DOMAIN t
    THEN [t EXCEPT ![id].decision_deadline = decisionDeadline,
                   ![id].status = StatusWaitingForApprove]
    ELSE t

\* Mutant: the UPDATE sets the status and leaves the cancel time to a
\* second statement.
UpdateReviewRequestToNotWhitelisted_StatusOnly(t, id, nonWhitelistCancelAt) ==
    IF id \in DOMAIN t
    THEN [t EXCEPT ![id].status = StatusNotWhitelisted]
    ELSE t

\* UPDATE ... SET non_whitelist_cancel_at, status
UpdateReviewRequestToNotWhitelisted(t, id, nonWhitelistCancelAt) ==
    IF id \in DOMAIN t
    THEN [t EXCEPT ![id].non_whitelist_cancel_at = nonWhitelistCancelAt,
                   ![id].status = StatusNotWhitelisted]
    ELSE t

\* Mutant: the result loop reads only the first row (if NextRow, not for).
GetExpiredWaitingForApprove_FirstRow(t, n) ==
    LET all == { id \in DOMAIN t : /\ t[id].status = StatusWaitingForApprove
                                   /\ t[id].decision_deadline # Null
                                   /\ t[id].decision_deadline <= n }
    IN { id \in all : \A other \in all : id <= other }

\* WHERE status = "WAITING_FOR_APPROVE" AND decision_deadline <= $now
\* (a NULL deadline compares as not true)
GetExpiredWaitingForApprove(t, n) ==
    { id \in DOMAIN t : /\ t[id].status = StatusWaitingForApprove
                        /\ t[id].decision_deadline # Null
                        /\ t[id].decision_deadline <= n }

\* Mutant: the comparison of timeutil.IsExpired (now after the deadline) in
\* place of non_whitelist_cancel_at <= $now.
GetExpiredNotWhitelisted_After(t, n) ==
    { id \in DOMAIN t : /\ t[id].status = StatusNotWhitelisted
                        /\ t[id].non_whitelist_cancel_at # Null
                        /\ t[id].non_whitelist_cancel_at < n }

\* WHERE status = "NOT_WHITELISTED" AND non_whitelist_cancel_at <= $now
GetExpiredNotWhitelisted(t, n) ==
    { id \in DOMAIN t : /\ t[id].status = StatusNotWhitelisted
                        /\ t[id].non_whitelist_cancel_at # Null
                        /\ t[id].non_whitelist_cancel_at <= n }

\* Mutant: the FAMILY disjunct of the WHERE clause is missing.
IsInWhitelist_ProjectOnly(wl, reviewerLogin, projectName, familyLabel) ==
    Cardinality({ e \in wl :
        /\ e.reviewer_login = reviewerLogin
        /\ e.entry_type = EntryTypeProject /\ e.name = projectName }) > 0

\* Mutant: the WHERE clause compares the names without the entry types.
IsInWhitelist_AnyType(wl, reviewerLogin, projectName, familyLabel) ==
    Cardinality({ e \in wl :
        /\ e.reviewer_login = reviewerLogin
        /\ e.name \in {projectName, familyLabel} }) > 0

\* SELECT COUNT(*) ... WHERE reviewer_login = $reviewer_login AND
\* ((entry_type = "PROJECT" AND name = $project_name) OR
\*  (entry_type = "FAMILY" AND name = $family_label)); return count > 0
IsInWhitelist(wl, reviewerLogin, projectName, familyLabel) ==
    Cardinality({ e \in wl :
        /\ e.reviewer_login = reviewerLogin
        /\ \/ (e.entry_type = EntryTypeProject /\ e.name = projectName)
           \/ (e.entry_type = EntryTypeFamily /\ e.name = familyLabel) }) > 0

\* INSERT INTO user_project_whitelist: fails on an existing primary key
AddToWhitelist(wl, entry) == wl \cup {entry}

\* Mutant: the DELETE also asks for entry_type = "PROJECT".
RemoveFromWhitelist_ProjectOnly(wl, reviewerLogin, name) ==
    { e \in wl : ~(/\ e.reviewer_login = reviewerLogin
                   /\ e.name = name
                   /\ e.entry_type = EntryTypeProject) }

\* DELETE ... WHERE reviewer_login = $reviewer_login AND name = $name
RemoveFromWhitelist(wl, reviewerLogin, name) ==
    { e \in wl : ~(e.reviewer_login = reviewerLogin /\ e.name = name) }

\* pkg/timeutil: time.Now().Add(delayMinutes)
CalculateNonWhitelistCancelTime(n, delayMinutes) == n + delayMinutes

\* The reviewer's nonWhitelistCancelDelayMinutes setting, in clock units.
Delays == 0..MaxDelay

\* What the calendar service does with a CalendarDeleteEventSlot request.
Outcomes == {"ok", "fails"}

\* Mutant: the error of the request is dropped and nil returned.
DeleteSlot_SwallowsError(outcome) == "nil"

\* S21Client.DeleteSlot: the error of the request, wrapped, or nil.
DeleteSlot(outcome) ==
    IF outcome = "ok" THEN "nil" ELSE "failed to delete slot"

\* S21Client.CancelSlot(slotID) = DeleteSlot(slotID): one external call.
CancelSlot(cc, slotID) ==
    [cc EXCEPT ![slotID] = IF @ < MaxCancelCalls THEN @ + 1 ELSE @]

(***************************************************************************)
(* pkg/lockbox: the package variables and what they hold.                  *)
(***************************************************************************)
\* A nil *LockboxPayload.
Nil == 0

\* time.Time{}: before every instant the clock shows.
ZeroTime == -9

\* The lifetime getPayload gives a fetched payload, in minutes.
CacheTTL == 5

\* The instants the clock is read at: the start of the process and the
\* moment a payload cached at the start expires.
Instants == {0, CacheTTL}

Callers == {"c1", "c2"}

Logins == {"alice"}

\* The logins GetUserTokens is asked for: the empty login has no entry.
AskedLogins == Logins \cup {""}

\* The tokens a StoreUserTokens call is given.
NewTokens == "t2"

\* A Users map without entries (a nil map reads the same).
EmptyUsers == [l \in {} |-> "t1"]

\* What the secret in Lockbox can hold.
SecretContents == {EmptyUsers, [l \in Logins |-> "t1"]}

\* The ttl arguments SetPayloadCache is called with.
TTLs == {0, CacheTTL}

\* The addresses of LockboxPayload objects.
Addrs == 1..MaxObjects

\* The heap without a LockboxPayload object.
NoObjects == [a \in {} |-> EmptyUsers]

NoCall == [op |-> "none", login |-> "", pl |-> Nil]

NoReturn == [caller |-> "none", op |-> "none", tokens |-> "nil", err |-> "nil"]

Returned(c, tokens) ==
    [caller |-> c, op |-> call[c].op, tokens |-> tokens, err |-> "nil"]

Failed(c, err) ==
    [caller |-> c, op |-> call[c].op, tokens |-> "nil", err |-> err]

\* A call that ends without a return value and belongs to no caller followed
\* here.
Finished(op) == [caller |-> "none", op |-> op, tokens |-> "nil", err |-> "nil"]

\* A sync.RWMutex nobody holds.
Unlocked == [readers |-> {}, writer |-> "none"]

LockboxInit ==
    /\ payloadCache = Nil
    /\ cacheExpiry = ZeroTime
    /\ client = "nil"
    /\ clientOnce = FALSE
    /\ heap = NoObjects
    /\ secret = [l \in Logins |-> "t1"]
    /\ clock = 0
    /\ cpc = [c \in Callers |-> "idle"]
    /\ call = [c \in Callers |-> NoCall]
    /\ ret = NoReturn
    /\ cacheMutex = Unlocked

(***************************************************************************)
(* pkg/ydb called directly: the project_families rows, the transaction     *)
(* record and the replies of the calls.                                    *)
(***************************************************************************)
\* The (family_label, project_name) rows the project graph can yield.
Families == { <<"f1", "p1">>, <<"f1", "p2">> }

\* The lists UpsertProjectFamilies is called with.
FamilyLists == UNION { [1..n -> Families] : n \in 0..MaxFamilies }

\* The ids CreateReviewRequest is given (uuid.New()).
RequestIds == 1..MaxRequests

\* The whitelist rows the IsInWhitelist query is asked over: two reviewers,
\* and names that occur both as a project name and as a family label.
AllWhitelistEntries ==
    { [reviewer_login |-> l, entry_type |-> ty, name |-> nm] :
        l \in {"alice", "bob"}, ty \in {EntryTypeProject, EntryTypeFamily},
        nm \in {"p1", "f1"} }

\* The status arguments UpdateReviewRequestStatus is called with: the
\* parameter is a string.
AskedStatuses == {StatusKnownProjectReview, StatusApproved, "BOGUS"}

NoTx == [pc |-> "idle", families |-> << >>, todo |-> << >>, rows |-> {}]

NoReply == [op |-> "none", err |-> "nil"]

\* The zero s21auth.Token.
NoToken == [AccessToken |-> "", RefreshToken |-> "", ExpiryTime |-> 0, IssueTime |-> 0]

\* &S21AuthProvider{} : no token, no school id, no context headers.
NoProvider == [token |-> NoToken, schoolID |-> "", contextHeaders |-> "nil"]

\* No settings row, initOnce not yet used, the tables of an earlier deployment
\* in place, a provider without tokens.
RestInit ==
    /\ user_settings = {}
    /\ initOnce = FALSE
    /\ tablesCreated = TRUE
    /\ provider = NoProvider

TableInit ==
    /\ project_families = {}
    /\ tx = NoTx
    /\ reply = NoReply
    /\ RestInit

(***************************************************************************)
(* The state after construction: empty tables, idle workers.               *)
(***************************************************************************)
NoJob == [batch |-> {}]

StoreInit ==
    /\ review_requests = << >>
    /\ user_project_whitelist = {}
    /\ now = 1
    /\ cancelCalls = [s \in Slots |-> 0]
    /\ pc = [w \in Workers |-> "idle"]
    /\ job = [w \in Workers |-> NoJob]
    /\ sweepRuns = 0
    /\ afterFirst = [rows |-> << >>, cancelled |-> {}]

Tick ==
    /\ now < MaxTime
    /\ now' = now + 1
    /\ UNCHANGED <<review_requests, user_project_whitelist, cancelCalls, pc, job, sweepVars, restVars, lockboxVars, tableVars>>

(***************************************************************************)
(* The lifecycle engine (spec §4.1): each handler reads the request in one *)
(* step and issues its store write in a later step; the store call is the  *)
(* code's, the handler around it follows the specification.                *)
(***************************************************************************)
\* The fields of a scanned row that the handlers use.
Snap(t, id) ==
    [id |-> id,
     reviewer_login |-> t[id].reviewer_login,
     project_name |-> t[id].project_name,
     family_label |-> t[id].family_label,
     calendar_slot_id |-> t[id].calendar_slot_id]

TheSnap(w) == CHOOSE r \in job[w].batch : TRUE

Done(w) ==
    /\ pc' = [pc EXCEPT ![w] = "idle"]
    /\ job' = [job EXCEPT ![w] = NoJob]

Begin(w, id, expected, next) ==
    /\ id \in DOMAIN review_requests
    /\ review_requests[id].status = expected
    /\ pc' = [pc EXCEPT ![w] = next]
    /\ job' = [job EXCEPT ![w] = [batch |-> {Snap(review_requests, id)}]]
    /\ UNCHANGED <<review_requests, user_project_whitelist, now, cancelCalls, sweepVars, restVars, lockboxVars, tableVars>>

\* 1. Slot discovered -> create the request in UNKNOWN_PROJECT_REVIEW.
DiscoverSlot(id) ==
    /\ id \notin DOMAIN review_requests
    /\ review_requests' = CreateReviewRequest(review_requests, id,
           [reviewer_login |-> ReviewerOf(id),
            calendar_slot_id |-> SlotOf(id),
            status |-> StatusUnknownProjectReview])
    /\ UNCHANGED <<user_project_whitelist, now, cancelCalls, pc, job, sweepVars, restVars, lockboxVars, tableVars>>

\* 2. Project/family resolved -> KNOWN_PROJECT_REVIEW.
BeginResolveProject(w, id) ==
    /\ pc[w] = "idle"
    /\ Begin(w, id, StatusUnknownProjectReview, "resolve")

FinishResolveProject(w) ==
    /\ pc[w] = "resolve"
    /\ review_requests' = UpdateReviewRequestWithProjectInfo(review_requests,
           TheSnap(w).id, ProjectOf(TheSnap(w).id), FamilyOf(TheSnap(w).id))
    /\ Done(w)
    /\ UNCHANGED <<user_project_whitelist, now, cancelCalls, sweepVars, restVars, lockboxVars, tableVars>>

\* 3. Whitelist check: found -> WHITELISTED, not found -> NOT_WHITELISTED.
BeginWhitelistCheck(w, id) ==
    /\ pc[w] = "idle"
    /\ id \in DOMAIN review_requests
    /\ Begin(w, id, StatusKnownProjectReview,
             IF IsInWhitelist(user_project_whitelist,
                              review_requests[id].reviewer_login,
                              review_requests[id].project_name,
                              review_requests[id].family_label)
             THEN "whitelisted" ELSE "not_whitelisted")

FinishWhitelisted(w) ==
    /\ pc[w] = "whitelisted"
    /\ review_requests' = UpdateReviewRequestStatus(review_requests,
           TheSnap(w).id, StatusWhitelisted, Null)
    /\ Done(w)
    /\ UNCHANGED <<user_project_whitelist, now, cancelCalls, sweepVars, restVars, lockboxVars, tableVars>>

FinishNotWhitelisted(w) ==
    /\ pc[w] = "not_whitelisted"
    /\ \E delay \in Delays :
          review_requests' = UpdateReviewRequestToNotWhitelisted(review_requests,
              TheSnap(w).id, CalculateNonWhitelistCancelTime(now, delay))
    /\ Done(w)
    /\ UNCHANGED <<user_project_whitelist, now, cancelCalls, sweepVars, restVars, lockboxVars, tableVars>>

\* 4. WHITELISTED -> NEED_TO_APPROVE -> WAITING_FOR_APPROVE.
BeginNeedToApprove(w, id) ==
    /\ pc[w] = "idle"
    /\ Begin(w, id, StatusWhitelisted, "need_to_approve")

FinishNeedToApprove(w) ==
    /\ pc[w] = "need_to_approve"
    /\ review_requests' = UpdateReviewRequestStatus(review_requests,
           TheSnap(w).id, StatusNeedToApprove, Null)
    /\ Done(w)
    /\ UNCHANGED <<user_project_whitelist, now, cancelCalls, sweepVars, restVars, lockboxVars, tableVars>>

BeginPrompt(w, id) ==
    /\ pc[w] = "idle"
    /\ Begin(w, id, StatusNeedToApprove, "prompt")

FinishPrompt(w) ==
    /\ pc[w] = "prompt"
    /\ \E decisionDeadline \in Times :
          review_requests' = UpdateReviewRequestToWaitingForApprove(
              review_requests, TheSnap(w).id, decisionDeadline)
    /\ Done(w)
    /\ UNCHANGED <<user_project_whitelist, now, cancelCalls, sweepVars, restVars, lockboxVars, tableVars>>

\* 5. Reviewer decision on a WAITING_FOR_APPROVE request.
BeginApprove(w, id) ==
    /\ pc[w] = "idle"
    /\ Begin(w, id, StatusWaitingForApprove, "approve")

FinishApprove(w) ==
    /\ pc[w] = "approve"
    /\ review_requests' = UpdateReviewRequestStatus(review_requests,
           TheSnap(w).id, StatusApproved, now)
    /\ Done(w)
    /\ UNCHANGED <<user_project_whitelist, now, cancelCalls, sweepVars, restVars, lockboxVars, tableVars>>

BeginDecline(w, id) ==
    /\ pc[w] = "idle"
    /\ Begin(w, id, StatusWaitingForApprove, "decline")

FinishDecline(w) ==
    /\ pc[w] = "decline"
    /\ review_requests' = UpdateReviewRequestStatus(review_requests,
           TheSnap(w).id, StatusCancelled, now)
    /\ cancelCalls' = CancelSlot(cancelCalls, TheSnap(w).calendar_slot_id)
    /\ Done(w)
    /\ UNCHANGED <<user_project_whitelist, now, sweepVars, restVars, lockboxVars, tableVars>>

(***************************************************************************)
(* The periodic sweep: (a) expired WAITING_FOR_APPROVE -> AUTO_CANCELLED,  *)
(* (b) expired NOT_WHITELISTED -> WHITELISTED when the whitelist matches,  *)
(* else AUTO_CANCELLED_NOT_WHITELISTED.  One request per step.             *)
(***************************************************************************)
SweepWaitingOne(t, cc, r, n) ==
    [requests |-> UpdateReviewRequestStatus(t, r.id, StatusAutoCancelled, n),
     cancels |-> CancelSlot(cc, r.calendar_slot_id)]

SweepNotWhitelistedOne(t, cc, wl, r, n) ==
    IF IsInWhitelist(wl, r.reviewer_login, r.project_name, r.family_label)
    THEN [requests |-> UpdateReviewRequestStatus(t, r.id, StatusWhitelisted, Null),
          cancels |-> cc]
    ELSE [requests |-> UpdateReviewRequestStatus(t, r.id,
                           StatusAutoCancelledNotWhitelisted, n),
          cancels |-> CancelSlot(cc, r.calendar_slot_id)]

BeginSweep(w, expired, next) ==
    /\ expired # {}
    /\ pc' = [pc EXCEPT ![w] = next]
    /\ job' = [job EXCEPT ![w] =
                  [batch |-> {Snap(review_requests, id) : id \in expired}]]
    /\ UNCHANGED <<review_requests, user_project_whitelist, now, cancelCalls, sweepVars, restVars, lockboxVars, tableVars>>

StepSweep(w, r, out) ==
    /\ review_requests' = out.requests
    /\ cancelCalls' = out.cancels
    /\ IF job[w].batch = {r}
       THEN Done(w)
       ELSE /\ job' = [job EXCEPT ![w].batch = @ \ {r}]
            /\ UNCHANGED pc
    /\ UNCHANGED <<user_project_whitelist, now, sweepVars, restVars, lockboxVars, tableVars>>

BeginSweepWaiting(w) ==
    /\ pc[w] = "idle"
    /\ BeginSweep(w, GetExpiredWaitingForApprove(review_requests, now), "sweep_waiting")

StepSweepWaiting(w) ==
    /\ pc[w] = "sweep_waiting"
    /\ \E r \in job[w].batch :
          StepSweep(w, r, SweepWaitingOne(review_requests, cancelCalls, r, now))

BeginSweepNotWhitelisted(w) ==
    /\ pc[w] = "idle"
    /\ BeginSweep(w, GetExpiredNotWhitelisted(review_requests, now), "sweep_not_whitelisted")

StepSweepNotWhitelisted(w) ==
    /\ pc[w] = "sweep_not_whitelisted"
    /\ \E r \in job[w].batch :
          StepSweep(w, r, SweepNotWhitelistedOne(review_requests, cancelCalls,
                                                 user_project_whitelist, r, now))

\* The reviewer edits the whitelist.
WhitelistAdd(entry) ==
    /\ entry \notin user_project_whitelist
    /\ user_project_whitelist' = AddToWhitelist(user_project_whitelist, entry)
    /\ UNCHANGED <<review_requests, now, cancelCalls, pc, job, sweepVars, restVars, lockboxVars, tableVars>>

WhitelistRemove(entry) ==
    /\ entry \in user_project_whitelist
    /\ user_project_whitelist' = RemoveFromWhitelist(user_project_whitelist,
                                     entry.reviewer_login, entry.name)
    /\ UNCHANGED <<review_requests, now, cancelCalls, pc, job, sweepVars, restVars, lockboxVars, tableVars>>

Init == StoreInit /\ LockboxInit /\ TableInit

Next ==
    \/ Tick
    \/ \E id \in Ids : DiscoverSlot(id)
    \/ \E w \in Workers, id \in Ids : BeginResolveProject(w, id)
    \/ \E w \in Workers : FinishResolveProject(w)
    \/ \E w \in Workers, id \in Ids : BeginWhitelistCheck(w, id)
    \/ \E w \in Workers : FinishWhitelisted(w)
    \/ \E w \in Workers : FinishNotWhitelisted(w)
    \/ \E w \in Workers, id \in Ids : BeginNeedToApprove(w, id)
    \/ \E w \in Workers : FinishNeedToApprove(w)
    \/ \E w \in Workers, id \in Ids : BeginPrompt(w, id)
    \/ \E w \in Workers : FinishPrompt(w)
    \/ \E w \in Workers, id \in Ids : BeginApprove(w, id)
    \/ \E w \in Workers : FinishApprove(w)
    \/ \E w \in Workers, id \in Ids : BeginDecline(w, id)
    \/ \E w \in Workers : FinishDecline(w)
    \/ \E w \in Workers : BeginSweepWaiting(w)
    \/ \E w \in Workers : StepSweepWaiting(w)
    \/ \E w \in Workers : BeginSweepNotWhitelisted(w)
    \/ \E w \in Workers : StepSweepNotWhitelisted(w)
    \/ \E entry \in WhitelistEntries : WhitelistAdd(entry)
    \/ \E entry \in WhitelistEntries : WhitelistRemove(entry)

Spec == Init /\ [][Next]_vars

\* A handler that has started finishes, and sweeps keep being started.
Fairness ==
    \A w \in Workers :
        /\ WF_vars(FinishResolveProject(w))
        /\ WF_vars(FinishWhitelisted(w))
        /\ WF_vars(FinishNotWhitelisted(w))
        /\ WF_vars(FinishNeedToApprove(w))
        /\ WF_vars(FinishPrompt(w))
        /\ WF_vars(FinishApprove(w))
        /\ WF_vars(FinishDecline(w))
        /\ WF_vars(BeginSweepWaiting(w))
        /\ WF_vars(StepSweepWaiting(w))
        /\ WF_vars(BeginSweepNotWhitelisted(w))
        /\ WF_vars(StepSweepNotWhitelisted(w))

FairSpec == Spec /\ Fairness

TypeOK ==
    /\ now \in Times
    /\ DOMAIN review_requests \subseteq Ids
    /\ user_project_whitelist \subseteq WhitelistEntries

(***************************************************************************)
(* Whole sweep runs: pass (a) over the expired WAITING_FOR_APPROVE rows,   *)
(* then pass (b) over the expired NOT_WHITELISTED rows, with no other      *)
(* store call and no clock tick in between.                                *)
(***************************************************************************)
RECURSIVE SweepWaitingAll(_, _, _)
SweepWaitingAll(batch, st, n) ==
    IF batch = {} THEN st
    ELSE LET r == CHOOSE x \in batch : TRUE
         IN SweepWaitingAll(batch \ {r},
                            SweepWaitingOne(st.requests, st.cancels, r, n), n)

RECURSIVE SweepNotWhitelistedAll(_, _, _, _)
SweepNotWhitelistedAll(batch, st, wl, n) ==
    IF batch = {} THEN st
    ELSE LET r == CHOOSE x \in batch : TRUE
         IN SweepNotWhitelistedAll(batch \ {r},
                SweepNotWhitelistedOne(st.requests, st.cancels, wl, r, n), wl, n)

SweepRun(t, cc, wl, n) ==
    LET a == SweepWaitingAll(
                 {Snap(t, id) : id \in GetExpiredWaitingForApprove(t, n)},
                 [requests |-> t, cancels |-> cc], n)
    IN SweepNotWhitelistedAll(
           {Snap(a.requests, id) : id \in GetExpiredNotWhitelisted(a.requests, n)},
           a, wl, n)

\* What the idempotence of the sweep compares: status and deadline fields
\* of every request, and the set of slots a cancellation was issued for.
Observed(t, cc) ==
    [rows |-> [id \in DOMAIN t |->
                  <<t[id].status, t[id].decision_deadline,
                    t[id].non_whitelist_cancel_at>>],
     cancelled |-> {s \in Slots : cc[s] > 0}]

\* Row contents the store operations leave behind: a deadline column is
\* set once the request has been through the status that sets it.
SweepShapes ==
    { <<StatusWaitingForApprove, dd, nw>> : dd \in Times, nw \in {Null} \cup Times }
    \cup { <<StatusNotWhitelisted, Null, nw>> : nw \in Times }
    \cup { <<StatusWhitelisted, Null, nw>> : nw \in {Null} \cup Times }
    \cup { <<StatusAutoCancelled, dd, Null>> : dd \in Times }

SweepRows(id) ==
    { [reviewer_login |-> ReviewerOf(id),
       calendar_slot_id |-> SlotOf(id),
       status |-> sh[1],
       project_name |-> ProjectOf(id),
       family_label |-> FamilyOf(id),
       decision_deadline |-> sh[2],
       non_whitelist_cancel_at |-> sh[3],
       decided_at |-> IF IsFinalStatus(sh[1]) THEN sh[2] ELSE Null] :
      sh \in SweepShapes }

SweepInit ==
    /\ review_requests \in [SweepIds -> UNION {SweepRows(id) : id \in SweepIds}]
    /\ \A id \in SweepIds : review_requests[id] \in SweepRows(id)
    /\ user_project_whitelist \in SUBSET WhitelistEntries
    /\ now \in Times
    /\ cancelCalls = [s \in Slots |-> 0]
    /\ pc = [w \in Workers |-> "idle"]
    /\ job = [w \in Workers |-> NoJob]
    /\ sweepRuns = 0
    /\ afterFirst = Observed(<< >>, cancelCalls)
    /\ LockboxInit
    /\ TableInit

SweepOnce ==
    /\ sweepRuns = 0
    /\ LET out == SweepRun(review_requests, cancelCalls, user_project_whitelist, now)
       IN /\ review_requests' = out.requests
          /\ cancelCalls' = out.cancels
          /\ afterFirst' = Observed(out.requests, out.cancels)
    /\ sweepRuns' = 1
    /\ UNCHANGED <<user_project_whitelist, now, pc, job, lockboxVars, restVars, tableVars>>

SweepAgain ==
    /\ sweepRuns = 1
    /\ LET out == SweepRun(review_requests, cancelCalls, user_project_whitelist, now)
       IN /\ review_requests' = out.requests
          /\ cancelCalls' = out.cancels
    /\ sweepRuns' = 2
    /\ UNCHANGED <<user_project_whitelist, now, pc, job, afterFirst, lockboxVars, restVars, tableVars>>

SweepNext == SweepOnce \/ SweepAgain

SweepSpec == SweepInit /\ [][SweepNext]_vars

(***************************************************************************)
(* Part II - pkg/lockbox.  The package keeps one cached payload and its    *)
(* expiry behind cacheMutex.  A section of code that holds cacheMutex is   *)
(* one atomic step; what a call does between two such sections (building   *)
(* the client, the PayloadService.Get round trip, the map accesses on      *)
(* pl.Users) happens in steps of its own, interleaved with other callers.  *)
(***************************************************************************)
\* Mutant: the test reads !time.Now().After(cacheExpiry) in place of
\* time.Now().Before(cacheExpiry).
CacheValid_NotAfter(cache, expiry, n) == cache # Nil /\ n <= expiry

\* getPayload's test under the read lock.
CacheValid(cache, expiry, n) == cache # Nil /\ n < expiry

\* The payloads some pointer still leads to: the cached one and those the
\* calls under way hold.
Refs(cache, calls) == ({cache} \cup {calls[c].pl : c \in Callers}) \ {Nil}

\* The garbage collector frees the payloads no pointer leads to.
Collect(h, refs) == [a \in DOMAIN h \cap refs |-> h[a]]

\* The address a new payload is allocated at.
NewAddr(h) == CHOOSE a \in Addrs \ DOMAIN h : \A b \in Addrs \ DOMAIN h : a <= b

Allocate(h, a, users) == [x \in DOMAIN h \cup {a} |-> IF x = a THEN users ELSE h[x]]

\* A panic or a fatal runtime error ends the process.
Running == \A c \in Callers : cpc[c] # "dead"

\* Callers between the start and the end of a write to the map of payload a.
Writers(a) == {c \in Callers : cpc[c] = "writing" /\ call[c].pl = a}

\* Callers with a PayloadService.Get request outstanding.
InFlight == {c \in Callers : cpc[c] = "fetching"}

Return(c, res) ==
    /\ cpc' = [cpc EXCEPT ![c] = "idle"]
    /\ call' = [call EXCEPT ![c] = NoCall]
    /\ ret' = res

\* The process ends and its memory with it.
Die ==
    /\ cpc' = [c \in Callers |-> "dead"]
    /\ call' = [c \in Callers |-> NoCall]
    /\ ret' = NoReturn
    /\ payloadCache' = Nil
    /\ cacheExpiry' = ZeroTime
    /\ client' = "nil"
    /\ clientOnce' = FALSE
    /\ heap' = NoObjects
    /\ cacheMutex' = Unlocked

CacheTick ==
    /\ Running
    /\ \E t \in Instants :
          /\ t > clock
          /\ \A u \in Instants : u > clock => t <= u
          /\ clock' = t
    /\ UNCHANGED <<payloadCache, cacheExpiry, client, clientOnce, heap, secret,
                   cpc, call, storeVars, sweepVars, restVars, tableVars>>
    /\ ret' = NoReturn
    /\ UNCHANGED cacheMutex

\* Someone edits the secret in Lockbox.
RotateSecret ==
    /\ Running
    /\ \E s \in SecretContents \ {secret} : secret' = s
    /\ UNCHANGED <<payloadCache, cacheExpiry, client, clientOnce, heap, clock,
                   cpc, call, storeVars, sweepVars, restVars, tableVars>>
    /\ ret' = NoReturn
    /\ UNCHANGED cacheMutex

\* Mutant: getPayload without the test of the cache, every call fetches.
GetPayloadCheck_AlwaysFetch(c, op, login) ==
    /\ Running
    /\ cpc' = [cpc EXCEPT ![c] = "miss"]
    /\ call' = [call EXCEPT ![c] = [op |-> op, login |-> login, pl |-> Nil]]
    /\ ret' = NoReturn
    /\ UNCHANGED <<payloadCache, cacheExpiry, client, clientOnce, heap, secret,
                   clock, storeVars, sweepVars, restVars, tableVars>>
    /\ UNCHANGED cacheMutex

\* getPayload up to the release of the read lock: a cached payload that has
\* not expired is the call's payload, otherwise the call goes to fetch one.
GetPayloadCheck(c, op, login) ==
    /\ Running
    /\ IF CacheValid(payloadCache, cacheExpiry, clock)
       THEN /\ cpc' = [cpc EXCEPT ![c] = "have"]
            /\ call' = [call EXCEPT ![c] = [op |-> op, login |-> login, pl |-> payloadCache]]
       ELSE /\ cpc' = [cpc EXCEPT ![c] = "miss"]
            /\ call' = [call EXCEPT ![c] = [op |-> op, login |-> login, pl |-> Nil]]
    /\ ret' = NoReturn
    /\ UNCHANGED <<payloadCache, cacheExpiry, client, clientOnce, heap, secret,
                   clock, storeVars, sweepVars, restVars, tableVars>>
    /\ UNCHANGED cacheMutex

GetUserTokens(c, login) ==
    /\ cpc[c] = "idle"
    /\ GetPayloadCheck(c, "get", login)

StoreUserTokens(c, login) ==
    /\ cpc[c] = "idle"
    /\ GetPayloadCheck(c, "store", login)

DeleteUserTokens(c, login) ==
    /\ cpc[c] = "idle"
    /\ GetPayloadCheck(c, "delete", login)

\* getRawPayload sends its request.
SendGet(c) ==
    /\ Cardinality(DOMAIN heap) + Cardinality(InFlight) < MaxObjects
    /\ cpc' = [cpc EXCEPT ![c] = "fetching"]
    /\ UNCHANGED call
    /\ ret' = NoReturn

\* GetClient finds no client and InitClient runs the body of clientOnce.
InitClient(c) ==
    /\ Running
    /\ cpc[c] = "miss"
    /\ client = "nil"
    /\ ~clientOnce
    /\ clientOnce' = TRUE
    /\ \E outcome \in {"no_secret_id", "sdk_error", "ok"} :
          IF outcome = "ok"
          THEN /\ client' = "ok"
               /\ SendGet(c)
          ELSE /\ client' = "nil"
               /\ Return(c, Failed(c, "init"))
    /\ UNCHANGED <<payloadCache, cacheExpiry, heap, secret, clock, storeVars, sweepVars, restVars, tableVars>>
    /\ UNCHANGED cacheMutex

\* GetClient finds no client and clientOnce has run: InitClient returns the
\* nil client with a nil error, and getRawPayload calls Get on it.
NilClient(c) ==
    /\ Running
    /\ cpc[c] = "miss"
    /\ client = "nil"
    /\ clientOnce
    /\ Die
    /\ UNCHANGED <<secret, clock, storeVars, sweepVars, restVars, tableVars>>

\* GetClient returns the client and getRawPayload sends its request.
BeginFetch(c) ==
    /\ Running
    /\ cpc[c] = "miss"
    /\ client = "ok"
    /\ SendGet(c)
    /\ UNCHANGED <<payloadCache, cacheExpiry, client, clientOnce, heap, secret,
                   clock, storeVars, sweepVars, restVars, tableVars>>
    /\ UNCHANGED cacheMutex

\* The request fails, or its text does not parse: getPayload returns the
\* error and leaves the cache as it is.
FetchFailed(c) ==
    /\ Running
    /\ cpc[c] = "fetching"
    /\ Return(c, Failed(c, "fetch"))
    /\ UNCHANGED <<payloadCache, cacheExpiry, client, clientOnce, heap, secret,
                   clock, storeVars, sweepVars, restVars, tableVars>>
    /\ UNCHANGED cacheMutex

\* The request answers: getRawPayload builds a new payload from the secret,
\* getPayload stores it and its expiry under the write lock.
FetchDone(c) ==
    /\ Running
    /\ cpc[c] = "fetching"
    /\ payloadCache' = NewAddr(heap)
    /\ cacheExpiry' = clock + CacheTTL
    /\ cpc' = [cpc EXCEPT ![c] = "have"]
    /\ call' = [call EXCEPT ![c].pl = NewAddr(heap)]
    /\ heap' = Collect(Allocate(heap, NewAddr(heap), secret), Refs(payloadCache', call'))
    /\ UNCHANGED <<client, clientOnce, secret, clock,
                   storeVars, sweepVars, restVars, tableVars>>
    /\ ret' = NoReturn
    /\ UNCHANGED cacheMutex

\* Mutant: GetUserTokens without the test of ok, the zero UserTokens of a
\* missing key are returned.
LookupTokens_IgnoresOk(c) ==
    /\ Running
    /\ cpc[c] = "have"
    /\ call[c].op = "get"
    /\ Writers(call[c].pl) = {}
    /\ IF call[c].login \in DOMAIN heap[call[c].pl]
       THEN Return(c, Returned(c, heap[call[c].pl][call[c].login]))
       ELSE Return(c, Returned(c, "zero"))
    /\ heap' = Collect(heap, Refs(payloadCache, call'))
    /\ UNCHANGED <<payloadCache, cacheExpiry, client, clientOnce, secret,
                   clock, storeVars, sweepVars, restVars, tableVars>>
    /\ UNCHANGED cacheMutex

\* GetUserTokens reads pl.Users[reviewerLogin].
LookupTokens(c) ==
    /\ Running
    /\ cpc[c] = "have"
    /\ call[c].op = "get"
    /\ Writers(call[c].pl) = {}
    /\ IF call[c].login \in DOMAIN heap[call[c].pl]
       THEN Return(c, Returned(c, heap[call[c].pl][call[c].login]))
       ELSE Return(c, Failed(c, "not_found"))
    /\ heap' = Collect(heap, Refs(payloadCache, call'))
    /\ UNCHANGED <<payloadCache, cacheExpiry, client, clientOnce, secret,
                   clock, storeVars, sweepVars, restVars, tableVars>>
    /\ UNCHANGED cacheMutex

\* GetUserTokens reads pl.Users while another call is writing that map: the
\* runtime ends the process, or the read goes through unnoticed.
LookupTokensRacing(c) ==
    /\ Running
    /\ cpc[c] = "have"
    /\ call[c].op = "get"
    /\ Writers(call[c].pl) # {}
    /\ \/ Die
       \/ /\ IF call[c].login \in DOMAIN heap[call[c].pl]
             THEN Return(c, Returned(c, heap[call[c].pl][call[c].login]))
             ELSE Return(c, Failed(c, "not_found"))
          /\ heap' = Collect(heap, Refs(payloadCache, call'))
          /\ UNCHANGED <<payloadCache, cacheExpiry, client, clientOnce>>
    /\ UNCHANGED <<secret, clock, storeVars, sweepVars, restVars, tableVars>>
    /\ UNCHANGED cacheMutex

\* StoreUserTokens and DeleteUserTokens start their write to pl.Users; a
\* write that meets another write to the same map may end the process.
BeginWrite(c) ==
    /\ Running
    /\ cpc[c] = "have"
    /\ call[c].op \in {"store", "delete"}
    /\ \/ /\ cpc' = [cpc EXCEPT ![c] = "writing"]
          /\ UNCHANGED <<call, payloadCache, cacheExpiry, client, clientOnce, heap>>
          /\ ret' = NoReturn
       \/ /\ Writers(call[c].pl) # {}
          /\ Die
    /\ UNCHANGED <<secret, clock, storeVars, sweepVars, restVars, tableVars>>
    /\ UNCHANGED cacheMutex

\* pl.Users[reviewerLogin] = tokens, resp. delete(pl.Users, reviewerLogin),
\* on the payload object getPayload returned.
EndWrite(c) ==
    /\ Running
    /\ cpc[c] = "writing"
    /\ LET a == call[c].pl
           users == heap[a]
       IN heap' = [heap EXCEPT ![a] =
                     IF call[c].op = "store"
                     THEN [l \in DOMAIN users \cup {call[c].login} |->
                              IF l = call[c].login THEN NewTokens ELSE users[l]]
                     ELSE [l \in DOMAIN users \ {call[c].login} |-> users[l]]]
    /\ cpc' = [cpc EXCEPT ![c] = "invalidate"]
    /\ UNCHANGED <<payloadCache, cacheExpiry, client, clientOnce, secret, clock,
                   call, storeVars, sweepVars, restVars, tableVars>>
    /\ ret' = NoReturn
    /\ UNCHANGED cacheMutex

\* StoreUserTokens and DeleteUserTokens drop the cached payload under the
\* write lock and return the not-implemented error.
DropCache(c) ==
    /\ Running
    /\ cpc[c] = "invalidate"
    /\ payloadCache' = Nil
    /\ Return(c, Failed(c, "not_implemented"))
    /\ heap' = Collect(heap, Refs(payloadCache', call'))
    /\ UNCHANGED <<cacheExpiry, client, clientOnce, secret, clock,
                   storeVars, sweepVars, restVars, tableVars>>
    /\ UNCHANGED cacheMutex

\* Mutant: InvalidateCache without cacheExpiry = time.Time{}.
InvalidateCache_KeepsExpiry ==
    /\ Running
    /\ payloadCache' = Nil
    /\ heap' = Collect(heap, Refs(payloadCache', call))
    /\ UNCHANGED <<cacheExpiry, client, clientOnce, secret, clock, cpc, call,
                   storeVars, sweepVars, restVars, tableVars>>
    /\ ret' = Finished("invalidate")
    /\ UNCHANGED cacheMutex

InvalidateCache ==
    /\ Running
    /\ payloadCache' = Nil
    /\ cacheExpiry' = ZeroTime
    /\ heap' = Collect(heap, Refs(payloadCache', call))
    /\ UNCHANGED <<client, clientOnce, secret, clock, cpc, call, storeVars, sweepVars, restVars, tableVars>>
    /\ ret' = Finished("invalidate")
    /\ UNCHANGED cacheMutex

\* SetPayloadCache with a payload the caller has built, or with nil.
SetPayloadCache(users, ttl) ==
    /\ Running
    /\ Cardinality(DOMAIN heap) + Cardinality(InFlight) < MaxObjects
    /\ payloadCache' = NewAddr(heap)
    /\ heap' = Collect(Allocate(heap, NewAddr(heap), users), Refs(payloadCache', call))
    /\ cacheExpiry' = clock + ttl
    /\ UNCHANGED <<client, clientOnce, secret, clock, cpc, call, storeVars, sweepVars, restVars, tableVars>>
    /\ ret' = NoReturn
    /\ UNCHANGED cacheMutex

SetPayloadCacheNil(ttl) ==
    /\ Running
    /\ payloadCache' = Nil
    /\ cacheExpiry' = clock + ttl
    /\ heap' = Collect(heap, Refs(payloadCache', call))
    /\ UNCHANGED <<client, clientOnce, secret, clock, cpc, call, storeVars, sweepVars, restVars, tableVars>>
    /\ ret' = NoReturn
    /\ UNCHANGED cacheMutex

CacheInit == StoreInit /\ LockboxInit /\ TableInit

CacheNext ==
    \/ CacheTick
    \/ RotateSecret
    \/ \E c \in Callers, login \in AskedLogins : GetUserTokens(c, login)
    \/ \E c \in Callers, login \in Logins : StoreUserTokens(c, login)
    \/ \E c \in Callers, login \in Logins : DeleteUserTokens(c, login)
    \/ \E c \in Callers : InitClient(c)
    \/ \E c \in Callers : NilClient(c)
    \/ \E c \in Callers : BeginFetch(c)
    \/ \E c \in Callers : FetchFailed(c)
    \/ \E c \in Callers : FetchDone(c)
    \/ \E c \in Callers : LookupTokens(c)
    \/ \E c \in Callers : LookupTokensRacing(c)
    \/ \E c \in Callers : BeginWrite(c)
    \/ \E c \in Callers : EndWrite(c)
    \/ \E c \in Callers : DropCache(c)
    \/ InvalidateCache
    \/ \E users \in SecretContents, ttl \in TTLs : SetPayloadCache(users, ttl)
    \/ \E ttl \in TTLs : SetPayloadCacheNil(ttl)

CacheSpec == CacheInit /\ [][CacheNext]_vars

(***************************************************************************)
(* pkg/lockbox with cacheMutex spelled out: taking the lock, the section   *)
(* under it and its release are steps of their own, and a call waits at    *)
(* RLock or Lock until the mutex lets it in.  A payload is a pointer; what *)
(* the maps hold is left to the steps above.                               *)
(***************************************************************************)
\* Enough addresses for the cached payload, one per call under way and one
\* being built.
LockAddrs == 1..(Cardinality(Callers) + 2)

FreshAddr == CHOOSE a \in LockAddrs : a \notin Refs(payloadCache, call)

\* Calls waiting in cacheMutex.Lock(): RLock lets no new reader in while
\* one does.
WaitingWriters == {c \in Callers : cpc[c] \in {"lock_fetched", "lock_drop", "lock_cache"}}

LockFrame == UNCHANGED <<client, clientOnce, heap, secret, clock,
                         storeVars, sweepVars, restVars, tableVars>>

\* GetUserTokens, StoreUserTokens and DeleteUserTokens enter getPayload.
CallGetPayload(c, op) ==
    /\ Running
    /\ cpc[c] = "idle"
    /\ cpc' = [cpc EXCEPT ![c] = "rlock"]
    /\ call' = [call EXCEPT ![c] = [op |-> op, login |-> "alice", pl |-> Nil]]
    /\ ret' = NoReturn
    /\ UNCHANGED <<payloadCache, cacheExpiry, cacheMutex>>
    /\ LockFrame

\* cacheMutex.RLock()
RLock(c) ==
    /\ Running
    /\ cpc[c] = "rlock"
    /\ cacheMutex.writer = "none"
    /\ WaitingWriters = {}
    /\ cacheMutex' = [cacheMutex EXCEPT !.readers = @ \cup {c}]
    /\ cpc' = [cpc EXCEPT ![c] = "rlocked"]
    /\ ret' = NoReturn
    /\ UNCHANGED <<payloadCache, cacheExpiry, call>>
    /\ LockFrame

\* Mutant: the hit returns without the deferred cacheMutex.RUnlock().
CheckHit_KeepsRLock(c) ==
    /\ Running
    /\ cpc[c] = "rlocked"
    /\ CacheValid(payloadCache, cacheExpiry, clock)
    /\ call' = [call EXCEPT ![c].pl = payloadCache]
    /\ cpc' = [cpc EXCEPT ![c] = "have"]
    /\ ret' = NoReturn
    /\ UNCHANGED <<payloadCache, cacheExpiry, cacheMutex>>
    /\ LockFrame

\* The cached payload is valid: defer cacheMutex.RUnlock(); return it.
CheckHit(c) ==
    /\ Running
    /\ cpc[c] = "rlocked"
    /\ CacheValid(payloadCache, cacheExpiry, clock)
    /\ call' = [call EXCEPT ![c].pl = payloadCache]
    /\ cacheMutex' = [cacheMutex EXCEPT !.readers = @ \ {c}]
    /\ cpc' = [cpc EXCEPT ![c] = "have"]
    /\ ret' = NoReturn
    /\ UNCHANGED <<payloadCache, cacheExpiry>>
    /\ LockFrame

\* It is not: cacheMutex.RUnlock(), then GetClient and getRawPayload.
CheckMiss(c) ==
    /\ Running
    /\ cpc[c] = "rlocked"
    /\ ~CacheValid(payloadCache, cacheExpiry, clock)
    /\ cacheMutex' = [cacheMutex EXCEPT !.readers = @ \ {c}]
    /\ cpc' = [cpc EXCEPT ![c] = "miss"]
    /\ ret' = NoReturn
    /\ UNCHANGED <<payloadCache, cacheExpiry, call>>
    /\ LockFrame

\* GetClient or getRawPayload returns an error and getPayload returns it.
MissFails(c) ==
    /\ Running
    /\ cpc[c] = "miss"
    /\ Return(c, Failed(c, "fetch"))
    /\ UNCHANGED <<payloadCache, cacheExpiry, cacheMutex>>
    /\ LockFrame

\* getRawPayload returns a new payload.
MissFetched(c) ==
    /\ Running
    /\ cpc[c] = "miss"
    /\ call' = [call EXCEPT ![c].pl = FreshAddr]
    /\ cpc' = [cpc EXCEPT ![c] = "lock_fetched"]
    /\ ret' = NoReturn
    /\ UNCHANGED <<payloadCache, cacheExpiry, cacheMutex>>
    /\ LockFrame

\* cacheMutex.Lock()
Lock(c) ==
    /\ Running
    /\ cpc[c] \in {"lock_fetched", "lock_drop", "lock_cache"}
    /\ cacheMutex = Unlocked
    /\ cacheMutex' = [cacheMutex EXCEPT !.writer = c]
    /\ cpc' = [cpc EXCEPT ![c] =
                  CASE cpc[c] = "lock_fetched" -> "locked_fetched"
                    [] cpc[c] = "lock_drop" -> "locked_drop"
                    [] cpc[c] = "lock_cache" -> "locked_cache"]
    /\ ret' = NoReturn
    /\ UNCHANGED <<payloadCache, cacheExpiry, call>>
    /\ LockFrame

\* payloadCache = pl; cacheExpiry = now + 5 min; cacheMutex.Unlock()
StoreFetched(c) ==
    /\ Running
    /\ cpc[c] = "locked_fetched"
    /\ payloadCache' = call[c].pl
    /\ cacheExpiry' = clock + CacheTTL
    /\ cacheMutex' = Unlocked
    /\ cpc' = [cpc EXCEPT ![c] = "have"]
    /\ ret' = NoReturn
    /\ UNCHANGED call
    /\ LockFrame

\* GetUserTokens reads pl.Users and returns; a read that meets a write to
\* the same map may end the process.
ReadUsers(c) ==
    /\ Running
    /\ cpc[c] = "have"
    /\ call[c].op = "get"
    /\ \/ /\ Return(c, Returned(c, "t1"))
          /\ UNCHANGED <<payloadCache, cacheExpiry, cacheMutex, client, clientOnce, heap>>
       \/ /\ Writers(call[c].pl) # {}
          /\ Die
    /\ UNCHANGED <<secret, clock, storeVars, sweepVars, restVars, tableVars>>

\* StoreUserTokens and DeleteUserTokens start their write to pl.Users,
\* without the lock; a write that meets another may end the process.
BeginMapWrite(c) ==
    /\ Running
    /\ cpc[c] = "have"
    /\ call[c].op \in {"store", "delete"}
    /\ \/ /\ cpc' = [cpc EXCEPT ![c] = "writing"]
          /\ ret' = NoReturn
          /\ UNCHANGED <<call, payloadCache, cacheExpiry, cacheMutex, client, clientOnce, heap>>
       \/ /\ Writers(call[c].pl) # {}
          /\ Die
    /\ UNCHANGED <<secret, clock, storeVars, sweepVars, restVars, tableVars>>

EndMapWrite(c) ==
    /\ Running
    /\ cpc[c] = "writing"
    /\ cpc' = [cpc EXCEPT ![c] = "lock_drop"]
    /\ ret' = NoReturn
    /\ UNCHANGED <<call, payloadCache, cacheExpiry, cacheMutex>>
    /\ LockFrame

\* payloadCache = nil; cacheMutex.Unlock(); return the not-implemented error
DropLocked(c) ==
    /\ Running
    /\ cpc[c] = "locked_drop"
    /\ payloadCache' = Nil
    /\ cacheMutex' = Unlocked
    /\ Return(c, Failed(c, "not_implemented"))
    /\ UNCHANGED cacheExpiry
    /\ LockFrame

\* InvalidateCache() and SetPayloadCache(pl, ttl) go for the write lock;
\* pl is a payload the caller built, or nil.
CallInvalidateCache(c) ==
    /\ Running
    /\ cpc[c] = "idle"
    /\ cpc' = [cpc EXCEPT ![c] = "lock_cache"]
    /\ call' = [call EXCEPT ![c] = [op |-> "invalidate", login |-> "", pl |-> Nil]]
    /\ ret' = NoReturn
    /\ UNCHANGED <<payloadCache, cacheExpiry, cacheMutex>>
    /\ LockFrame

CallSetPayloadCache(c, isNil) ==
    /\ Running
    /\ cpc[c] = "idle"
    /\ cpc' = [cpc EXCEPT ![c] = "lock_cache"]
    /\ call' = [call EXCEPT ![c] = [op |-> "set", login |-> "",
                                    pl |-> IF isNil THEN Nil ELSE FreshAddr]]
    /\ ret' = NoReturn
    /\ UNCHANGED <<payloadCache, cacheExpiry, cacheMutex>>
    /\ LockFrame

\* payloadCache = nil; cacheExpiry = time.Time{}; the deferred Unlock
InvalidateLocked(c) ==
    /\ Running
    /\ cpc[c] = "locked_cache"
    /\ call[c].op = "invalidate"
    /\ payloadCache' = Nil
    /\ cacheExpiry' = ZeroTime
    /\ cacheMutex' = Unlocked
    /\ Return(c, Finished("invalidate"))
    /\ LockFrame

\* payloadCache = pl; cacheExpiry = now + ttl; the deferred Unlock
SetLocked(c, ttl) ==
    /\ Running
    /\ cpc[c] = "locked_cache"
    /\ call[c].op = "set"
    /\ payloadCache' = call[c].pl
    /\ cacheExpiry' = clock + ttl
    /\ cacheMutex' = Unlocked
    /\ Return(c, Finished("set"))
    /\ LockFrame

LockInit == StoreInit /\ LockboxInit /\ TableInit

LockNext ==
    \/ CacheTick
    \/ \E c \in Callers, op \in {"get", "store", "delete"} : CallGetPayload(c, op)
    \/ \E c \in Callers : RLock(c)
    \/ \E c \in Callers : CheckHit(c)
    \/ \E c \in Callers : CheckMiss(c)
    \/ \E c \in Callers : MissFails(c)
    \/ \E c \in Callers : MissFetched(c)
    \/ \E c \in Callers : Lock(c)
    \/ \E c \in Callers : StoreFetched(c)
    \/ \E c \in Callers : ReadUsers(c)
    \/ \E c \in Callers : BeginMapWrite(c)
    \/ \E c \in Callers : EndMapWrite(c)
    \/ \E c \in Callers : DropLocked(c)
    \/ \E c \in Callers : CallInvalidateCache(c)
    \/ \E c \in Callers, isNil \in BOOLEAN : CallSetPayloadCache(c, isNil)
    \/ \E c \in Callers : InvalidateLocked(c)
    \/ \E c \in Callers, ttl \in TTLs : SetLocked(c, ttl)

LockSpec == LockInit /\ [][LockNext]_vars

(***************************************************************************)
(* Part III - pkg/ydb called directly.                                     *)
(*                                                                         *)
(* UpsertProjectFamilies runs DELETE and one INSERT per element of its     *)
(* list inside driver.Table().DoTx: the statements work on the rows of the *)
(* transaction, which the table takes over when the function returns nil   *)
(* and the commit succeeds, and drops when a statement fails.  The         *)
(* statements of the transaction are steps of their own, so that other     *)
(* calls run between them.                                                 *)
(***************************************************************************)
\* The multiset of the elements of a list.
Multiset(list) ==
    [x \in {list[i] : i \in DOMAIN list} |->
        Cardinality({i \in DOMAIN list : list[i] = x})]

\* UpsertProjectFamilies returns: nil, or the error of the failed statement.
UpsertReturns(err) ==
    /\ reply' = [op |-> "UpsertProjectFamilies", err |-> err,
                 families |-> tx.families]
    /\ tx' = NoTx

\* DoTx opens the transaction.
UpsertProjectFamilies(families) ==
    /\ tx.pc = "idle"
    /\ tx' = [pc |-> "delete", families |-> families, todo |-> families,
              rows |-> project_families]
    /\ UNCHANGED <<project_families, reply, storeVars, sweepVars, restVars, lockboxVars>>

\* DELETE FROM project_families
TxDelete ==
    /\ tx.pc = "delete"
    /\ tx' = [tx EXCEPT !.rows = {},
                        !.pc = IF tx.todo = << >> THEN "commit" ELSE "insert"]
    /\ UNCHANGED <<project_families, reply, storeVars, sweepVars, restVars, lockboxVars>>

\* The DELETE fails: "failed to clear project_families", DoTx rolls back.
TxDeleteFails ==
    /\ tx.pc = "delete"
    /\ UpsertReturns("unavailable")
    /\ UNCHANGED <<project_families, storeVars, sweepVars, restVars, lockboxVars>>

\* Mutant: the INSERT is run outside the transaction (Exec), on the table.
TxInsert_AutoCommit ==
    /\ tx.pc = "insert"
    /\ Head(tx.todo) \notin project_families
    /\ project_families' = project_families \cup {Head(tx.todo)}
    /\ tx' = [tx EXCEPT !.rows = @ \cup {Head(tx.todo)},
                        !.todo = Tail(@),
                        !.pc = IF Tail(tx.todo) = << >> THEN "commit" ELSE "insert"]
    /\ UNCHANGED <<reply, storeVars, sweepVars, restVars, lockboxVars>>

\* INSERT INTO project_families (family_label, project_name) for the next
\* element of the list; the primary key is (family_label, project_name).
TxInsert ==
    /\ tx.pc = "insert"
    /\ Head(tx.todo) \notin tx.rows
    /\ tx' = [tx EXCEPT !.rows = @ \cup {Head(tx.todo)},
                        !.todo = Tail(@),
                        !.pc = IF Tail(tx.todo) = << >> THEN "commit" ELSE "insert"]
    /\ UNCHANGED <<project_families, reply, storeVars, sweepVars, restVars, lockboxVars>>

\* The INSERT meets a row with its primary key: the statement fails,
\* "failed to insert project family", DoTx rolls back.
TxInsertConflict ==
    /\ tx.pc = "insert"
    /\ Head(tx.todo) \in tx.rows
    /\ UpsertReturns("conflict")
    /\ UNCHANGED <<project_families, storeVars, sweepVars, restVars, lockboxVars>>

\* The INSERT fails for a reason of the database's.
TxInsertFails ==
    /\ tx.pc = "insert"
    /\ UpsertReturns("unavailable")
    /\ UNCHANGED <<project_families, storeVars, sweepVars, restVars, lockboxVars>>

\* The function returned nil: DoTx commits.
TxCommit ==
    /\ tx.pc = "commit"
    /\ project_families' = tx.rows
    /\ UpsertReturns("nil")
    /\ UNCHANGED <<storeVars, sweepVars, restVars, lockboxVars>>

\* The commit fails.
TxCommitFails ==
    /\ tx.pc = "commit"
    /\ UpsertReturns("unavailable")
    /\ UNCHANGED <<project_families, storeVars, sweepVars, restVars, lockboxVars>>

\* SELECT family_label, project_name FROM project_families: one element
\* per row.
GetAllProjectFamilies ==
    /\ reply' = [op |-> "GetAllProjectFamilies", err |-> "nil",
                 families |-> SetToBag(project_families)]
    /\ UNCHANGED <<project_families, tx, storeVars, sweepVars, restVars, lockboxVars>>

FamilyInit ==
    /\ StoreInit
    /\ LockboxInit
    /\ project_families \in SUBSET Families
    /\ tx = NoTx
    /\ reply = NoReply
    /\ RestInit

FamilyNext ==
    \/ \E families \in FamilyLists : UpsertProjectFamilies(families)
    \/ TxDelete
    \/ TxDeleteFails
    \/ TxInsert
    \/ TxInsertConflict
    \/ TxInsertFails
    \/ TxCommit
    \/ TxCommitFails
    \/ GetAllProjectFamilies

FamilySpec == FamilyInit /\ [][FamilyNext]_vars

(***************************************************************************)
(* IsInWhitelist asked over every content of user_project_whitelist.       *)
(***************************************************************************)
\* The query ran: count > 0, nil.
AskIsInWhitelist(reviewerLogin, projectName, familyLabel) ==
    /\ reply' = [op |-> "IsInWhitelist", err |-> "nil",
                 reviewer_login |-> reviewerLogin,
                 project_name |-> projectName,
                 family_label |-> familyLabel,
                 value |-> IsInWhitelist(user_project_whitelist, reviewerLogin,
                                         projectName, familyLabel)]
    /\ UNCHANGED <<project_families, tx, storeVars, sweepVars, restVars, lockboxVars>>

\* The query failed: false, "failed to check whitelist".
AskIsInWhitelistFails(reviewerLogin, projectName, familyLabel) ==
    /\ reply' = [op |-> "IsInWhitelist", err |-> "unavailable",
                 reviewer_login |-> reviewerLogin,
                 project_name |-> projectName,
                 family_label |-> familyLabel,
                 value |-> FALSE]
    /\ UNCHANGED <<project_families, tx, storeVars, sweepVars, restVars, lockboxVars>>

\* RemoveFromWhitelist(ctx, reviewerLogin, name): the DELETE succeeds
\* whether or not a row matches.
AskRemoveFromWhitelist(reviewerLogin, name) ==
    /\ user_project_whitelist' =
          RemoveFromWhitelist(user_project_whitelist, reviewerLogin, name)
    /\ reply' = [op |-> "RemoveFromWhitelist", err |-> "nil",
                 reviewer_login |-> reviewerLogin, name |-> name,
                 before |-> user_project_whitelist]
    /\ UNCHANGED <<project_families, tx, review_requests, now, cancelCalls,
                   pc, job, sweepVars, restVars, lockboxVars>>

WhitelistInit ==
    /\ review_requests = << >>
    /\ user_project_whitelist \in SUBSET AllWhitelistEntries
    /\ now = 1
    /\ cancelCalls = [s \in Slots |-> 0]
    /\ pc = [w \in Workers |-> "idle"]
    /\ job = [w \in Workers |-> NoJob]
    /\ sweepRuns = 0
    /\ afterFirst = [rows |-> << >>, cancelled |-> {}]
    /\ LockboxInit
    /\ TableInit

WhitelistNext ==
    \/ \E l \in {"alice", "bob"}, p \in {"p1", "f1"}, f \in {"p1", "f1"} :
          AskIsInWhitelist(l, p, f)
    \/ \E l \in {"alice", "bob"}, p \in {"p1", "f1"}, f \in {"p1", "f1"} :
          AskIsInWhitelistFails(l, p, f)
    \/ \E l \in {"alice", "bob"}, name \in {"p1", "f1"} :
          AskRemoveFromWhitelist(l, name)

WhitelistSpec == WhitelistInit /\ [][WhitelistNext]_vars

(***************************************************************************)
(* The review_requests operations called by workers that discover booked   *)
(* slots: a worker looks the slot up with GetReviewRequestByCalendarSlotID *)
(* and, when no row is found, calls CreateReviewRequest with a new id.     *)
(* UpdateReviewRequestStatus is called with the arguments its signature    *)
(* accepts.                                                                *)
(***************************************************************************)
\* The workers that have looked a slot up, found no row and not yet created one.
Creating == { w \in Workers : pc[w] = "discover" /\ ~TheSnap(w).found }

BeginDiscover(w, slot) ==
    /\ pc[w] = "idle"
    /\ Cardinality(DOMAIN review_requests) + Cardinality(Creating) < MaxRequests
    /\ pc' = [pc EXCEPT ![w] = "discover"]
    /\ job' = [job EXCEPT ![w] =
                  [batch |-> {[calendar_slot_id |-> slot,
                               found |-> GetReviewRequestByCalendarSlotID(
                                             review_requests, slot) # {}]}]]
    /\ UNCHANGED <<review_requests, user_project_whitelist, now, cancelCalls,
                   sweepVars, restVars, lockboxVars, tableVars>>

FinishDiscover(w) ==
    /\ pc[w] = "discover"
    /\ IF TheSnap(w).found
       THEN UNCHANGED review_requests
       ELSE \E id \in RequestIds \ DOMAIN review_requests :
               review_requests' = CreateReviewRequest(review_requests, id,
                   [reviewer_login |-> "alice",
                    calendar_slot_id |-> TheSnap(w).calendar_slot_id,
                    status |-> StatusUnknownProjectReview])
    /\ Done(w)
    /\ UNCHANGED <<user_project_whitelist, now, cancelCalls, sweepVars, restVars,
                   lockboxVars, tableVars>>

\* UpdateReviewRequestStatus(ctx, id, status, decidedAt) called on a row,
\* with decidedAt nil or the time of the call.
SetStatus(id, status, decided) ==
    /\ id \in DOMAIN review_requests
    /\ review_requests' = UpdateReviewRequestStatus(review_requests, id, status,
                              IF decided THEN now ELSE Null)
    /\ UNCHANGED <<user_project_whitelist, now, cancelCalls, pc, job,
                   sweepVars, restVars, lockboxVars, tableVars>>

\* GetReviewRequestByCalendarSlotID(ctx, calendarSlotID) returns the first
\* row of SELECT ... WHERE calendar_slot_id = $calendar_slot_id; the query
\* has no ORDER BY, so any row of the result may come first.
AskGetReviewRequestByCalendarSlotID(calendarSlotID, first) ==
    /\ first \in GetReviewRequestByCalendarSlotID(review_requests, calendarSlotID)
    /\ reply' = [op |-> "GetReviewRequestByCalendarSlotID", err |-> "nil",
                 calendar_slot_id |-> calendarSlotID, id |-> first,
                 status |-> review_requests[first].status]
    /\ UNCHANGED <<project_families, tx, storeVars, sweepVars, restVars, lockboxVars>>

\* The result has no row.
AskGetReviewRequestByCalendarSlotIDNotFound(calendarSlotID) ==
    /\ GetReviewRequestByCalendarSlotID(review_requests, calendarSlotID) = {}
    /\ reply' = [op |-> "GetReviewRequestByCalendarSlotID",
                 err |-> "review request not found with calendar_slot_id",
                 calendar_slot_id |-> calendarSlotID]
    /\ UNCHANGED <<project_families, tx, storeVars, sweepVars, restVars, lockboxVars>>

StoreNext ==
    \/ \E w \in Workers, slot \in Slots : BeginDiscover(w, slot)
    \/ \E w \in Workers : FinishDiscover(w)
    \/ \E id \in RequestIds, status \in AskedStatuses, decided \in BOOLEAN :
          SetStatus(id, status, decided)
    \/ \E slot \in Slots, first \in RequestIds :
          AskGetReviewRequestByCalendarSlotID(slot, first)
    \/ \E slot \in Slots : AskGetReviewRequestByCalendarSlotIDNotFound(slot)

StoreSpec == Init /\ [][StoreNext]_vars

(***************************************************************************)
(* The sweep with a calendar service that can fail: for a request that is  *)
(* to be cancelled the worker calls CancelSlot and writes the final status *)
(* when the call returned nil; on an error it leaves the request to the    *)
(* next sweep (spec 4.1, 5).                                               *)
(***************************************************************************)
CancelReply(r, outcome) ==
    [op |-> "CancelSlot", err |-> DeleteSlot(outcome), outcome |-> outcome,
     id |-> r.id]

\* The worker is through with request r of its batch.
Leave(w, r) ==
    IF job[w].batch = {r}
    THEN Done(w)
    ELSE /\ job' = [job EXCEPT ![w].batch = @ \ {r}]
         /\ UNCHANGED pc

CancelAndFinalize(w, r, outcome, status) ==
    /\ cancelCalls' = CancelSlot(cancelCalls, r.calendar_slot_id)
    /\ reply' = CancelReply(r, outcome)
    /\ IF DeleteSlot(outcome) = "nil"
       THEN review_requests' = UpdateReviewRequestStatus(review_requests, r.id,
                                                         status, now)
       ELSE UNCHANGED review_requests
    /\ Leave(w, r)

RetrySweepWaiting(w, outcome) ==
    /\ pc[w] = "sweep_waiting"
    /\ \E r \in job[w].batch :
          CancelAndFinalize(w, r, outcome, StatusAutoCancelled)
    /\ UNCHANGED <<user_project_whitelist, now, sweepVars, restVars, lockboxVars,
                   project_families, tx>>

RetrySweepPromote(w) ==
    /\ pc[w] = "sweep_not_whitelisted"
    /\ \E r \in job[w].batch :
          /\ IsInWhitelist(user_project_whitelist, r.reviewer_login,
                           r.project_name, r.family_label)
          /\ review_requests' = UpdateReviewRequestStatus(review_requests, r.id,
                                                          StatusWhitelisted, Null)
          /\ Leave(w, r)
    /\ reply' = NoReply
    /\ UNCHANGED <<user_project_whitelist, now, cancelCalls, sweepVars, restVars,
                   lockboxVars, project_families, tx>>

RetrySweepNotWhitelisted(w, outcome) ==
    /\ pc[w] = "sweep_not_whitelisted"
    /\ \E r \in job[w].batch :
          /\ ~IsInWhitelist(user_project_whitelist, r.reviewer_login,
                            r.project_name, r.family_label)
          /\ CancelAndFinalize(w, r, outcome, StatusAutoCancelledNotWhitelisted)
    /\ UNCHANGED <<user_project_whitelist, now, sweepVars, restVars, lockboxVars,
                   project_families, tx>>

RetryInit ==
    /\ review_requests \in [Ids -> UNION {SweepRows(id) : id \in Ids}]
    /\ \A id \in Ids : review_requests[id] \in SweepRows(id)
    /\ user_project_whitelist \in SUBSET WhitelistEntries
    /\ now \in Times
    /\ cancelCalls = [s \in Slots |-> 0]
    /\ pc = [w \in Workers |-> "idle"]
    /\ job = [w \in Workers |-> NoJob]
    /\ sweepRuns = 0
    /\ afterFirst = [rows |-> << >>, cancelled |-> {}]
    /\ LockboxInit
    /\ TableInit

RetryNext ==
    \/ Tick
    \/ \E w \in Workers : BeginSweepWaiting(w)
    \/ \E w \in Workers : BeginSweepNotWhitelisted(w)
    \/ \E w \in Workers, outcome \in Outcomes : RetrySweepWaiting(w, outcome)
    \/ \E w \in Workers : RetrySweepPromote(w)
    \/ \E w \in Workers, outcome \in Outcomes : RetrySweepNotWhitelisted(w, outcome)

RetrySpec == RetryInit /\ [][RetryNext]_vars

(***************************************************************************)
(* The approve handler and the sweep of expired WAITING_FOR_APPROVE        *)
(* requests on their own, from any row the store operations leave behind.  *)
(***************************************************************************)
RaceNext ==
    \/ Tick
    \/ \E w \in Workers, id \in Ids : BeginApprove(w, id)
    \/ \E w \in Workers : FinishApprove(w)
    \/ \E w \in Workers : BeginSweepWaiting(w)
    \/ \E w \in Workers : StepSweepWaiting(w)

RaceSpec == RetryInit /\ [][RaceNext]_vars

(***************************************************************************)
(* The selection queries of the sweep, called on any table the store       *)
(* operations can leave behind: UpdateReviewRequestStatus sets any status  *)
(* and writes no deadline column, so a row of any status may hold any      *)
(* deadline or none.                                                       *)
(***************************************************************************)
SelectIds == {1, 2}

SelectStatuses ==
    {StatusWaitingForApprove, StatusNotWhitelisted, StatusWhitelisted,
     StatusAutoCancelled}

SelectRows(id) ==
    { [reviewer_login |-> ReviewerOf(id),
       calendar_slot_id |-> SlotOf(id),
       status |-> status,
       project_name |-> ProjectOf(id),
       family_label |-> FamilyOf(id),
       decision_deadline |-> dd,
       non_whitelist_cancel_at |-> nw,
       decided_at |-> IF IsFinalStatus(status) THEN MaxTime ELSE Null] :
      status \in SelectStatuses, dd \in {Null} \cup Times, nw \in {Null} \cup Times }

AskGetExpiredWaitingForApprove ==
    /\ reply = NoReply
    /\ reply' = [op |-> "GetExpiredWaitingForApprove", err |-> "nil",
                 requests |-> GetExpiredWaitingForApprove(review_requests, now)]
    /\ UNCHANGED <<project_families, tx, storeVars, sweepVars, restVars, lockboxVars>>

AskGetExpiredNotWhitelisted ==
    /\ reply = NoReply
    /\ reply' = [op |-> "GetExpiredNotWhitelisted", err |-> "nil",
                 requests |-> GetExpiredNotWhitelisted(review_requests, now)]
    /\ UNCHANGED <<project_families, tx, storeVars, sweepVars, restVars, lockboxVars>>

SelectInit ==
    /\ review_requests \in [SelectIds -> UNION {SelectRows(id) : id \in SelectIds}]
    /\ \A id \in SelectIds : review_requests[id] \in SelectRows(id)
    /\ user_project_whitelist = {}
    /\ now \in Times
    /\ cancelCalls = [s \in Slots |-> 0]
    /\ pc = [w \in Workers |-> "idle"]
    /\ job = [w \in Workers |-> NoJob]
    /\ sweepRuns = 0
    /\ afterFirst = [rows |-> << >>, cancelled |-> {}]
    /\ LockboxInit
    /\ TableInit

SelectNext ==
    \/ AskGetExpiredWaitingForApprove
    \/ AskGetExpiredNotWhitelisted

SelectSpec == SelectInit /\ [][SelectNext]_vars

(***************************************************************************)
(* pkg/ydb at startup and the user_settings table.  InitSchema creates the *)
(* tables behind initOnce; user_settings has reviewer_login as its primary *)
(* key and is written by UpsertUserSettings and UpdateUserSetting.  A      *)
(* statement on a table that was never created fails, and so does one the  *)
(* database could not be reached for.                                      *)
(***************************************************************************)

\* models.DefaultUserSettings(reviewerLogin).
DefaultUserSettings(reviewerLogin) ==
    [reviewer_login                     |-> reviewerLogin,
     response_deadline_shift_minutes    |-> 20,
     non_whitelist_cancel_delay_minutes |-> 5,
     notify_whitelist_timeout           |-> TRUE,
     notify_non_whitelist_cancel        |-> TRUE,
     slot_shift_threshold_minutes       |-> 25,
     slot_shift_duration_minutes        |-> 15,
     cleanup_durations_minutes          |-> 15]

\* An INSERT in place of the UPSERT: a row already there is left as it is.
UpsertUserSettings_InsertOnly(t, settings) ==
    IF \E r \in t : r.reviewer_login = settings.reviewer_login
    THEN t
    ELSE t \cup {settings}

\* UPSERT INTO user_settings (...) VALUES (...): the row with the primary
\* key of settings is replaced, or added when there is none.
UpsertUserSettings(t, settings) ==
    {r \in t : r.reviewer_login # settings.reviewer_login} \cup {settings}

\* UPDATE user_settings SET field = $value WHERE reviewer_login = ...
UpdateUserSetting(t, reviewerLogin, field, value) ==
    {IF r.reviewer_login = reviewerLogin THEN [r EXCEPT ![field] = value] ELSE r
       : r \in t}

\* The outcomes of createTables: YDB_DATABASE is not set, GetConnection
\* fails, a createTableIfNotExists fails, or every table is in place.
CreateTablesOutcomes == {"no_database", "connection", "create", "nil"}

\* InitSchema(ctx): initErr is a variable of the call, assigned only inside
\* initOnce.Do, which runs its function on the first call alone.
InitSchema(outcome) ==
    /\ initOnce' = TRUE
    /\ IF ~initOnce
       THEN /\ tablesCreated' = (tablesCreated \/ outcome = "nil")
            /\ reply' = [op |-> "InitSchema", err |-> outcome, first |-> TRUE]
       ELSE /\ reply' = [op |-> "InitSchema", err |-> "nil", first |-> FALSE]
            /\ UNCHANGED tablesCreated
    /\ UNCHANGED <<user_settings, provider, project_families, tx, storeVars,
                   sweepVars, lockboxVars>>

\* CreateDefaultUserSettings(ctx, reviewerLogin): UpsertUserSettings of the
\* defaults; the error of Exec is returned as it is.
AskCreateDefaultUserSettings(reviewerLogin, ok) ==
    /\ IF ok /\ tablesCreated
       THEN /\ user_settings' =
                  UpsertUserSettings(user_settings, DefaultUserSettings(reviewerLogin))
            /\ reply' = [op |-> "CreateDefaultUserSettings", err |-> "nil",
                         reviewer_login |-> reviewerLogin,
                         before |-> user_settings]
       ELSE /\ reply' = [op |-> "CreateDefaultUserSettings", err |-> "exec",
                         reviewer_login |-> reviewerLogin,
                         before |-> user_settings]
            /\ UNCHANGED user_settings
    /\ UNCHANGED <<initOnce, tablesCreated, provider, project_families, tx,
                   storeVars, sweepVars, lockboxVars>>

\* UpdateUserSetting(ctx, reviewerLogin, field, value) with an int or a bool.
AskUpdateUserSetting(reviewerLogin, field, value, ok) ==
    /\ IF ok /\ tablesCreated
       THEN /\ user_settings' =
                  UpdateUserSetting(user_settings, reviewerLogin, field, value)
            /\ reply' = [op |-> "UpdateUserSetting", err |-> "nil",
                         reviewer_login |-> reviewerLogin,
                         before |-> user_settings]
       ELSE /\ reply' = [op |-> "UpdateUserSetting", err |-> "exec",
                         reviewer_login |-> reviewerLogin,
                         before |-> user_settings]
            /\ UNCHANGED user_settings
    /\ UNCHANGED <<initOnce, tablesCreated, provider, project_families, tx,
                   storeVars, sweepVars, lockboxVars>>

\* A process that has not called InitSchema yet, on a database without
\* tables.
SettingsInit ==
    /\ StoreInit
    /\ LockboxInit
    /\ project_families = {}
    /\ tx = NoTx
    /\ reply = NoReply
    /\ user_settings = {}
    /\ initOnce = FALSE
    /\ tablesCreated = FALSE
    /\ provider = NoProvider

SettingsNext ==
    \/ \E outcome \in CreateTablesOutcomes : InitSchema(outcome)
    \/ \E l \in {"alice", "bob"}, ok \in BOOLEAN :
          AskCreateDefaultUserSettings(l, ok)
    \/ \E l \in {"alice", "bob"}, ok \in BOOLEAN :
          \/ \E v \in {20, 30} :
                AskUpdateUserSetting(l, "response_deadline_shift_minutes", v, ok)
          \/ \E v \in BOOLEAN :
                AskUpdateUserSetting(l, "notify_whitelist_timeout", v, ok)

SettingsSpec == SettingsInit /\ [][SettingsNext]_vars

(***************************************************************************)
(* S21AuthProvider.  GetAuthCredentials refreshes the stored token when it *)
(* is about to expire and then completes the school id and the context     *)
(* headers.  One client uses one provider, so a call is one step; the      *)
(* instants at which it reads time.Now() (lines 33, 81 and 82) and the     *)
(* answers of the token endpoint are inputs of the call.                   *)
(***************************************************************************)

\* The refresh with the token written before the status of the response is
\* looked at.
refreshTokenWithCustomClientID_UpdatesFirst(tok, t33, outcome, tokenResponse, t81, t82) ==
    IF tok.AccessToken # "" /\ t33 < tok.ExpiryTime - 60
    THEN [token |-> tok, err |-> "nil", sent |-> FALSE]
    ELSE IF tok.RefreshToken = ""
    THEN [token |-> tok, err |-> "no refresh token available", sent |-> FALSE]
    ELSE IF outcome = "request"
    THEN [token |-> tok, err |-> outcome, sent |-> TRUE]
    ELSE [token |-> [AccessToken  |-> tokenResponse.AccessToken,
                     RefreshToken |-> tokenResponse.RefreshToken,
                     ExpiryTime   |-> t81 + tokenResponse.ExpiresIn,
                     IssueTime    |-> t82],
          err |-> outcome, sent |-> TRUE]

\* refreshTokenWithCustomClientID: the token after the call, the error
\* returned and whether the POST was made.  outcome is "request" when Post
\* returns an error, "status" when the response is not a success, "parse"
\* when json.Unmarshal fails, "nil" otherwise.
refreshTokenWithCustomClientID(tok, t33, outcome, tokenResponse, t81, t82) ==
    IF tok.AccessToken # "" /\ t33 < tok.ExpiryTime - 60
    THEN [token |-> tok, err |-> "nil", sent |-> FALSE]
    ELSE IF tok.RefreshToken = ""
    THEN [token |-> tok, err |-> "no refresh token available", sent |-> FALSE]
    ELSE IF outcome # "nil"
    THEN [token |-> tok, err |-> outcome, sent |-> TRUE]
    ELSE [token |-> [AccessToken  |-> tokenResponse.AccessToken,
                     RefreshToken |-> tokenResponse.RefreshToken,
                     ExpiryTime   |-> t81 + tokenResponse.ExpiresIn,
                     IssueTime    |-> t82],
          err |-> "nil", sent |-> TRUE]

\* refreshCredentials: the refresh, then RequestUserData when the school id
\* is missing, then RequestContextHeaders when the headers are missing.
refreshCredentials(p, t33, outcome, tokenResponse, t81, t82, userOk, headersOk) ==
    LET r == refreshTokenWithCustomClientID(p.token, t33, outcome, tokenResponse, t81, t82)
        p1 == [p EXCEPT !.token = r.token]
        p2 == IF p1.schoolID = "" THEN [p1 EXCEPT !.schoolID = "s1"] ELSE p1
        p3 == IF p2.contextHeaders = "nil" THEN [p2 EXCEPT !.contextHeaders = "h1"] ELSE p2
    IN  IF r.err # "nil"
        THEN [provider |-> p1, err |-> r.err, refresh |-> r]
        ELSE IF p1.schoolID = "" /\ ~userOk
        THEN [provider |-> p1, err |-> "user data", refresh |-> r]
        ELSE IF p2.contextHeaders = "nil" /\ ~headersOk
        THEN [provider |-> p2, err |-> "context headers", refresh |-> r]
        ELSE [provider |-> p3, err |-> "nil", refresh |-> r]

\* The instants time.Now().Unix() is read at, around the 60 seconds before
\* an expiry at 200.
AuthInstants == {139, 140, 141}

\* The bodies the token endpoint answers with: a field missing from the
\* JSON is the zero value.
TokenResponses ==
    [AccessToken : {"a1"}, RefreshToken : {"", "r1"}, ExpiresIn : {0, 100}]

\* The body of a response that is not read.
NoResponse == [AccessToken |-> "", RefreshToken |-> "", ExpiresIn |-> 0]

RefreshOutcomes == {"nil", "request", "status", "parse"}

\* GetAuthCredentials(ctx): refreshCredentials, then the credentials built
\* from the provider.
GetAuthCredentials(t33, outcome, tokenResponse, t81, t82, userOk, headersOk) ==
    /\ now <= t33 /\ t33 <= t81 /\ t81 <= t82
    /\ LET out == refreshCredentials(provider, t33, outcome, tokenResponse,
                                     t81, t82, userOk, headersOk)
       IN /\ provider' = out.provider
          /\ now' = IF out.refresh.sent /\ out.refresh.err = "nil" THEN t82 ELSE t33
          /\ reply' = [op |-> "GetAuthCredentials", err |-> out.err,
                       refreshErr |-> out.refresh.err,
                       sent |-> out.refresh.sent,
                       before |-> provider.token, t33 |-> t33,
                       tokenResponse |-> tokenResponse,
                       t81 |-> t81, t82 |-> t82,
                       Token |-> IF out.err = "nil"
                                 THEN out.provider.token.AccessToken ELSE ""]
    /\ UNCHANGED <<review_requests, user_project_whitelist, cancelCalls, pc, job,
                   user_settings, initOnce, tablesCreated, project_families, tx,
                   sweepVars, lockboxVars>>

\* The providers of NewS21Client and NewS21ClientFromTokens: tokens as they
\* were stored, possibly empty, no school id and no context headers yet.
AuthInit ==
    /\ review_requests = << >>
    /\ user_project_whitelist = {}
    /\ now = 100
    /\ cancelCalls = [s \in Slots |-> 0]
    /\ pc = [w \in Workers |-> "idle"]
    /\ job = [w \in Workers |-> NoJob]
    /\ sweepRuns = 0
    /\ afterFirst = [rows |-> << >>, cancelled |-> {}]
    /\ LockboxInit
    /\ project_families = {}
    /\ tx = NoTx
    /\ reply = NoReply
    /\ user_settings = {}
    /\ initOnce = FALSE
    /\ tablesCreated = TRUE
    /\ \E a \in {"", "a0"}, r \in {"", "r0"}, e \in {0, 200} :
          provider = [NoProvider EXCEPT
                         !.token = [AccessToken |-> a, RefreshToken |-> r,
                                    ExpiryTime |-> e, IssueTime |-> 0]]

\* The calls whose POST, if made, fails, and the calls whose POST, if made,
\* is answered with a token.
AuthNext ==
    \/ \E t33 \in AuthInstants, outcome \in RefreshOutcomes \ {"nil"} :
          GetAuthCredentials(t33, outcome, NoResponse, t33, t33, TRUE, TRUE)
    \/ \E t33 \in AuthInstants, tokenResponse \in TokenResponses,
          t81 \in AuthInstants, late \in {0, 1},
          rest \in {<<TRUE, TRUE>>, <<FALSE, TRUE>>, <<TRUE, FALSE>>} :
          GetAuthCredentials(t33, "nil", tokenResponse, t81, t81 + late,
                             rest[1], rest[2])

AuthSpec == AuthInit /\ [][AuthNext]_vars

(***************************************************************************)
(* Part IV - pkg/timeutil.  A time.Duration is a signed integer of         *)
(* DurationBits bits counting ticks, and so is an int; a time.Time is an   *)
(* instant in ticks.  The widths are scaled down (Go: 64 bits, a tick of   *)
(* 1 ns, 6e10 ticks to the minute, a float64 mantissa of 53 bits) with     *)
(* their order kept: a Duration holds more bits than the mantissa.         *)
(***************************************************************************)
DurationBits == 8

\* time.Minute, in ticks (a tick is 15 s here).
Minute == 4

\* The mantissa of a float64.
MantissaBits == 5

MinDuration == -(2 ^ (DurationBits - 1))

MaxDuration == 2 ^ (DurationBits - 1) - 1

\* The values of an int and of a time.Duration.
IntRange == MinDuration..MaxDuration

\* Signed integer arithmetic wraps around.
Wrap(x) == ((x - MinDuration) % (2 ^ DurationBits)) + MinDuration

\* time.Duration(minutes) * time.Minute
MinutesToDuration(minutes) == Wrap(minutes * Minute)

\* Time.Add(d)
TimeAdd(t, d) == t + d

\* Time.Sub(u): the difference, or the largest or smallest Duration when
\* it does not fit.
TimeSub(t, u) ==
    IF t - u > MaxDuration THEN MaxDuration
    ELSE IF t - u < MinDuration THEN MinDuration
    ELSE t - u

\* Integer division and remainder of Go: toward zero.
Quo(x, y) == IF x >= 0 THEN x \div y ELSE -((-x) \div y)

Rem(x, y) == x - y * Quo(x, y)

\* The distance between neighbouring floats at the size of x / Minute, in
\* ticks: 1 while the mantissa holds every bit of x.
RECURSIVE Spacing(_, _)
Spacing(x, bits) ==
    IF x < 2 ^ bits THEN 1 ELSE 2 * Spacing(x \div 2, bits)

\* Round to the nearest multiple of the spacing, a tie to the even one.
RoundToFloat(x) ==
    LET a == IF x >= 0 THEN x ELSE -x
        u == Spacing(a, MantissaBits)
        q == a \div u
        r == a % u
        up == \/ 2 * r > u
              \/ (2 * r = u /\ q % 2 = 1)
        m == IF up THEN (q + 1) * u ELSE q * u
    IN IF x >= 0 THEN m ELSE -m

\* Duration.Minutes(): float64(d / Minute) + float64(d % Minute) / (60 * 1e9),
\* as a count of ticks (the float is that count divided by Minute).
Minutes(d) == RoundToFloat(Quo(d, Minute) * Minute + Rem(d, Minute))

\* Mutant: the float is rounded to the nearest integer (math.Round).
DurationInMinutes_Rounds(d) ==
    Quo(2 * Minutes(d) + (IF d >= 0 THEN Minute ELSE -Minute), 2 * Minute)

\* int(d.Minutes()): the conversion drops the fraction.
DurationInMinutes(d) == Quo(Minutes(d), Minute)

\* int(end.Sub(start).Minutes())
CalculateSlotDuration(start, end) == Quo(Minutes(TimeSub(end, start)), Minute)

\* int(time.Until(t).Minutes())
MinutesUntil(n, t) == Quo(Minutes(TimeSub(t, n)), Minute)

\* Mutant: the shift is added.
CalculateDecisionDeadline_Adds(reviewStartTime, shiftMinutes) ==
    TimeAdd(reviewStartTime, MinutesToDuration(shiftMinutes))

\* reviewStartTime.Add(-time.Duration(shiftMinutes) * time.Minute)
CalculateDecisionDeadline(reviewStartTime, shiftMinutes) ==
    TimeAdd(reviewStartTime, MinutesToDuration(Wrap(-shiftMinutes)))

\* Mutant: After without Equal.
ShouldShiftSlot_Exclusive(n, slotStartTime, thresholdMinutes) ==
    TimeAdd(n, MinutesToDuration(thresholdMinutes)) > slotStartTime

\* thresholdFromNow := time.Now().Add(time.Duration(thresholdMinutes) * time.Minute)
\* thresholdFromNow.After(slotStartTime) || thresholdFromNow.Equal(slotStartTime)
ShouldShiftSlot(n, slotStartTime, thresholdMinutes) ==
    TimeAdd(n, MinutesToDuration(thresholdMinutes)) >= slotStartTime

\* The instants the functions are called with and at.
TimeInstants == {-4, 0, 8, 9, 22, 35, 200, 300}

\* Each behaviour makes one call: the functions keep no state between calls.
AskCalculateDecisionDeadline(reviewStartTime, shiftMinutes) ==
    /\ reply = NoReply
    /\ reply' = [op |-> "CalculateDecisionDeadline", err |-> "nil",
                 reviewStartTime |-> reviewStartTime,
                 shiftMinutes |-> shiftMinutes,
                 value |-> CalculateDecisionDeadline(reviewStartTime, shiftMinutes)]
    /\ UNCHANGED <<project_families, tx, storeVars, sweepVars, restVars, lockboxVars>>

AskShouldShiftSlot(slotStartTime, thresholdMinutes) ==
    /\ reply = NoReply
    /\ reply' = [op |-> "ShouldShiftSlot", err |-> "nil",
                 slotStartTime |-> slotStartTime,
                 thresholdMinutes |-> thresholdMinutes,
                 value |-> ShouldShiftSlot(now, slotStartTime, thresholdMinutes)]
    /\ UNCHANGED <<project_families, tx, storeVars, sweepVars, restVars, lockboxVars>>

AskDurationInMinutes(d) ==
    /\ reply = NoReply
    /\ reply' = [op |-> "DurationInMinutes", err |-> "nil", d |-> d,
                 value |-> DurationInMinutes(d)]
    /\ UNCHANGED <<project_families, tx, storeVars, sweepVars, restVars, lockboxVars>>

AskCalculateSlotDuration(start, end) ==
    /\ reply = NoReply
    /\ reply' = [op |-> "CalculateSlotDuration", err |-> "nil",
                 d |-> TimeSub(end, start),
                 value |-> CalculateSlotDuration(start, end)]
    /\ UNCHANGED <<project_families, tx, storeVars, sweepVars, restVars, lockboxVars>>

AskMinutesUntil(t) ==
    /\ reply = NoReply
    /\ reply' = [op |-> "MinutesUntil", err |-> "nil",
                 d |-> TimeSub(t, now),
                 value |-> MinutesUntil(now, t)]
    /\ UNCHANGED <<project_families, tx, storeVars, sweepVars, restVars, lockboxVars>>

TimeInit ==
    /\ review_requests = << >>
    /\ user_project_whitelist = {}
    /\ now \in {0, 8}
    /\ cancelCalls = [s \in Slots |-> 0]
    /\ pc = [w \in Workers |-> "idle"]
    /\ job = [w \in Workers |-> NoJob]
    /\ sweepRuns = 0
    /\ afterFirst = [rows |-> << >>, cancelled |-> {}]
    /\ LockboxInit
    /\ TableInit

TimeNext ==
    \/ \E t \in TimeInstants, m \in IntRange : AskCalculateDecisionDeadline(t, m)
    \/ \E t \in TimeInstants, m \in IntRange : AskShouldShiftSlot(t, m)
    \/ \E d \in IntRange : AskDurationInMinutes(d)
    \/ \E start \in TimeInstants, end \in TimeInstants :
          AskCalculateSlotDuration(start, end)
    \/ \E t \in TimeInstants : AskMinutesUntil(t)

TimeSpec == TimeInit /\ [][TimeNext]_vars

(***************************************************************************)
(* pkg/telegram: callback data.  A Go string is the sequence of its        *)
(* bytes, here a sequence of one-character strings.                        *)
(***************************************************************************)
APPROVE == <<"A", "P", "P", "R", "O", "V", "E">>

DECLINE == <<"D", "E", "C", "L", "I", "N", "E">>

\* fmt.Sprintf("%s:%s", action, reviewRequestID)
FormatCallbackData(action, reviewRequestID) ==
    action \o <<":">> \o reviewRequestID

\* The loop of splitData from byte i on; count is Len(result) + 1.
RECURSIVE splitLoop(_, _, _, _, _)
splitLoop(s, n, i, result, current) ==
    IF i > Len(s)
    THEN Append(result, current)
    ELSE IF s[i] = ":" /\ Len(result) + 1 < n
         THEN splitLoop(s, n, i + 1, Append(result, current), << >>)
         ELSE splitLoop(s, n, i + 1, result, Append(current, s[i]))

\* splitData that cuts at every ':', whatever n is, as strings.Split does.
splitData_EveryColon(s, n) ==
    IF n <= 0 THEN << >> ELSE splitLoop(s, Len(s) + 2, 1, << >>, << >>)

splitData(s, n) ==
    IF n <= 0 THEN << >> ELSE splitLoop(s, n, 1, << >>, << >>)

ParseCallbackData(data) ==
    LET parts == splitData(data, 2)
    IN  IF Len(parts) # 2
        THEN [action |-> << >>, reviewRequestID |-> << >>,
              err |-> "invalid callback data format"]
        ELSE IF parts[1] # APPROVE /\ parts[1] # DECLINE
             THEN [action |-> << >>, reviewRequestID |-> << >>,
                   err |-> "invalid action"]
             ELSE [action |-> parts[1], reviewRequestID |-> parts[2],
                   err |-> "nil"]

\* The bytes request ids are drawn from; ':' is one of them.
IdBytes == {"a", "-", ":"}

RECURSIVE StringsUpTo(_)
StringsUpTo(n) ==
    IF n = 0 THEN {<< >>}
    ELSE LET shorter == StringsUpTo(n - 1)
         IN  shorter \cup {Append(s, b) : s \in shorter, b \in IdBytes}

ReviewRequestIDs == StringsUpTo(MaxIdLen)

\* What may stand in front of the first ':' of callback data.
Prefixes ==
    {APPROVE, DECLINE, << >>,
     <<"a", "p", "p", "r", "o", "v", "e">>,
     <<"A", "p", "p", "r", "o", "v", "e">>,
     <<"A", "P", "P", "R", "O", "V">>,
     <<"A", "P", "P", "R", "O", "V", "E", "D">>,
     <<"D", "E", "C", "L", "I", "N", "E", " ">>,
     <<"C", "A", "N", "C", "E", "L">>}

CallbackData ==
    Prefixes \cup {p \o id : p \in Prefixes, id \in ReviewRequestIDs}
             \cup {FormatCallbackData(p, id) : p \in Prefixes,
                                               id \in ReviewRequestIDs}

\* The strings the status predicates are asked about.
StatusStrings ==
    {StatusUnknownProjectReview, StatusKnownProjectReview, StatusWhitelisted,
     StatusNotWhitelisted, StatusNeedToApprove, StatusWaitingForApprove,
     StatusApproved, StatusCancelled, StatusAutoCancelled,
     StatusAutoCancelledNotWhitelisted,
     "", "INVALID_STATUS", "approved", "Approved", "APPROVED ", "FINAL",
     "CANCELED", "AUTO_CANCELLED_", "PENDING"}

AskStatus(status) ==
    /\ reply = NoReply
    /\ reply' = [op |-> "Status", err |-> "nil", status |-> status,
                 valid |-> IsValidStatus(status),
                 intermediate |-> IsIntermediateStatus(status),
                 final |-> IsFinalStatus(status)]
    /\ UNCHANGED <<project_families, tx, storeVars, sweepVars, restVars, lockboxVars>>

AskFormatCallbackData(action, reviewRequestID) ==
    /\ reply = NoReply
    /\ reply' = [op |-> "FormatCallbackData", err |-> "nil",
                 action |-> action, reviewRequestID |-> reviewRequestID,
                 data |-> FormatCallbackData(action, reviewRequestID)]
    /\ UNCHANGED <<project_families, tx, storeVars, sweepVars, restVars, lockboxVars>>

\* The callback handler parses the data a button was formatted with.
AskParseFormatted ==
    /\ reply.op = "FormatCallbackData"
    /\ reply' = [op |-> "ParseFormatted", err |-> "nil",
                 action |-> reply.action,
                 reviewRequestID |-> reply.reviewRequestID,
                 data |-> reply.data,
                 parsed |-> ParseCallbackData(reply.data)]
    /\ UNCHANGED <<project_families, tx, storeVars, sweepVars, restVars, lockboxVars>>

AskParseCallbackData(data) ==
    /\ reply = NoReply
    /\ reply' = [op |-> "ParseCallbackData", err |-> "nil", data |-> data,
                 parsed |-> ParseCallbackData(data)]
    /\ UNCHANGED <<project_families, tx, storeVars, sweepVars, restVars, lockboxVars>>

PureInit == TimeInit

PureNext ==
    \/ \E status \in StatusStrings : AskStatus(status)
    \/ \E action \in {APPROVE, DECLINE}, id \in ReviewRequestIDs :
          AskFormatCallbackData(action, id)
    \/ AskParseFormatted
    \/ \E data \in CallbackData : AskParseCallbackData(data)

PureSpec == PureInit /\ [][PureNext]_vars

(***************************************************************************)
(* Properties of the lifecycle.                                            *)
(***************************************************************************)
\* Worker w issues its store write in this step.
Writes(w) == pc[w] # "idle" /\ job'[w] # job[w]

\* The request the write of worker w is for.
Written(w) == CHOOSE r \in job[w].batch : r \notin job'[w].batch

\* The status the handler at position p read before it writes.
ExpectedStatus(p) ==
    CASE p = "resolve" -> StatusUnknownProjectReview
      [] p \in {"whitelisted", "not_whitelisted"} -> StatusKnownProjectReview
      [] p = "need_to_approve" -> StatusWhitelisted
      [] p = "prompt" -> StatusNeedToApprove
      [] p \in {"approve", "decline", "sweep_waiting"} -> StatusWaitingForApprove
      [] p = "sweep_not_whitelisted" -> StatusNotWhitelisted

\* The whitelist holds a PROJECT entry for the row's project or a FAMILY
\* entry for its family, for the row's reviewer.
Member(row) ==
    \E e \in user_project_whitelist :
        /\ e.reviewer_login = row.reviewer_login
        /\ \/ e.entry_type = "PROJECT" /\ e.name = row.project_name
           \/ e.entry_type = "FAMILY" /\ e.name = row.family_label

WaitingExpired(id) ==
    /\ id \in DOMAIN review_requests
    /\ review_requests[id].status = "WAITING_FOR_APPROVE"
    /\ review_requests[id].decision_deadline # Null
    /\ review_requests[id].decision_deadline <= now

\* C1: once the persisted status of a request is final, no step changes it.
AbsorbingFinality ==
    [][\A id \in DOMAIN review_requests :
          review_requests[id].status \in
              {"APPROVED", "CANCELLED", "AUTO_CANCELLED",
               "AUTO_CANCELLED_NOT_WHITELISTED"}
          => review_requests'[id].status = review_requests[id].status]_vars

\* C2: a write issued by a handler whose expected status is no longer the
\* persisted status leaves the table unchanged.
ConditionedWrite ==
    [][\A w \in Workers :
          (Writes(w) /\ review_requests[Written(w).id].status # ExpectedStatus(pc[w]))
          => review_requests' = review_requests]_vars

\* C3: a sweep worker that attempts WAITING_FOR_APPROVE -> AUTO_CANCELLED on
\* a request another sweep worker has already auto-cancelled changes nothing
\* and issues no second CancelSlot for the slot.
SweepCancelsOnce ==
    [][\A w \in Workers :
          (/\ pc[w] = "sweep_waiting"
           /\ Writes(w)
           /\ review_requests[Written(w).id].status = "AUTO_CANCELLED")
          => /\ review_requests' = review_requests
             /\ cancelCalls' = cancelCalls]_vars

\* C4: at most one of decision_deadline and non_whitelist_cancel_at is set,
\* decision_deadline only in WAITING_FOR_APPROVE and non_whitelist_cancel_at
\* only in NOT_WHITELISTED.
ExclusiveDeadlineField ==
    \A id \in DOMAIN review_requests :
        LET row == review_requests[id]
        IN /\ ~(row.decision_deadline # Null /\ row.non_whitelist_cancel_at # Null)
           /\ row.decision_deadline # Null => row.status = "WAITING_FOR_APPROVE"
           /\ row.non_whitelist_cancel_at # Null => row.status = "NOT_WHITELISTED"

IdempotentSweep ==
    sweepRuns = 2 => Observed(review_requests, cancelCalls) = afterFirst

\* Two runs done, and the first one cancelled a slot and promoted a request.
IdempotentSweepWitness ==
    /\ sweepRuns = 2
    /\ afterFirst.cancelled # {}
    /\ \E id \in DOMAIN review_requests :
          /\ review_requests[id].status = "WHITELISTED"
          /\ review_requests[id].non_whitelist_cancel_at # Null
          /\ review_requests[id].non_whitelist_cancel_at <= now

(***************************************************************************)
(* Properties of the payload cache.                                        *)
(***************************************************************************)
\* Caller c starts a GetUserTokens call in this step.
StartsGet(c) == cpc[c] = "idle" /\ cpc'[c] \in {"have", "miss"} /\ call'[c].op = "get"

\* C8: at no time is more than one fetch from Lockbox in flight, so
\* concurrent calls that meet an expired or empty cache share one fetch.
SingleFlight == Cardinality(InFlight) <= 1

\* C9: a GetUserTokens call that meets a cached snapshot with
\* clock < cacheExpiry takes that very snapshot and sends no request, a
\* GetUserTokens call holding a snapshot never goes on to fetch, and (no
\* write to the map of the snapshot being in progress) it returns the
\* entry the snapshot has for its login, without error.
ValidCacheServes ==
    [][\A c \in Callers :
          /\ (StartsGet(c) /\ payloadCache # Nil /\ clock < cacheExpiry)
                => /\ cpc'[c] = "have"
                   /\ call'[c].pl = payloadCache
                   /\ InFlight' = InFlight
          /\ (cpc[c] = "have" /\ call[c].op = "get" /\ cpc'[c] # "have")
                => cpc'[c] \in {"idle", "dead"}
          /\ (/\ cpc[c] = "have" /\ call[c].op = "get" /\ cpc'[c] = "idle"
              /\ Writers(call[c].pl) = {}
              /\ call[c].login \in DOMAIN heap[call[c].pl])
                => ret' = [caller |-> c,
                           op |-> "get",
                           tokens |-> heap[call[c].pl][call[c].login],
                           err |-> "nil"]
      ]_vars

\* C9 witness: with no client ever built, one call has been answered with
\* tokens while the other holds the same cached, unexpired snapshot.
ValidCacheServesWitness ==
    /\ client = "nil" /\ ~clientOnce
    /\ payloadCache # Nil /\ clock < cacheExpiry
    /\ ret.caller = "c1" /\ ret.err = "nil" /\ ret.tokens = heap[payloadCache]["alice"]
    /\ cpc["c2"] = "have" /\ call["c2"].op = "get" /\ call["c2"].pl = payloadCache

FailedFetchEmptiesCache ==
    [][\A c \in Callers :
          /\ (cpc[c] \in {"miss", "fetching"} /\ cpc'[c] = "idle")
                => /\ ret'.caller = c
                   /\ ret'.tokens = "nil"
                   /\ ret'.err \in {"init", "fetch"}
                   /\ payloadCache' = Nil
          /\ (cpc[c] = "miss" /\ cpc'[c] = "fetching")
                => ~(payloadCache # Nil /\ clock < cacheExpiry)
      ]_vars

WritesFailNotImplemented ==
    [][\A c \in Callers :
          (call[c].op \in {"store", "delete"} /\ cpc'[c] = "idle")
             => /\ ret'.caller = c
                /\ ret'.err = "not_implemented"
                /\ payloadCache' = Nil
      ]_vars

\* C14: the Users map of a payload that is cached, or that a
\* GetUserTokens call holds, is never changed, and the tokens a
\* GetUserTokens call returns are tokens the secret can hold.
NeverMutatedInPlace ==
    [][/\ \A a \in DOMAIN heap \cap DOMAIN heap' :
             (a = payloadCache \/ \E c \in Callers : call[c].op = "get" /\ call[c].pl = a)
                => heap'[a] = heap[a]
       /\ (ret'.op = "get" /\ ret'.tokens # "nil")
             => \E users \in SecretContents :
                   \E l \in DOMAIN users : users[l] = ret'.tokens
      ]_vars

\* C15: a GetUserTokens call whose payload has no entry for its login
\* returns no tokens and the not-found error, which is not the error of a
\* failed fetch, and leaves the cached payload and its expiry as they are.
NotFoundLeavesCache ==
    [][\A c \in Callers :
          (/\ cpc[c] = "have" /\ call[c].op = "get" /\ cpc'[c] = "idle"
           /\ call[c].login \notin DOMAIN heap[call[c].pl])
             => /\ ret' = [caller |-> c, op |-> "get", tokens |-> "nil",
                           err |-> "not_found"]
                /\ ret'.err \notin {"fetch", "init"}
                /\ payloadCache' = payloadCache
                /\ cacheExpiry' = cacheExpiry
                /\ payloadCache # Nil => heap'[payloadCache] = heap[payloadCache]
      ]_vars

\* C15 witness: a call for the empty login has been answered with the
\* not-found error from a cached, unexpired payload that does hold tokens
\* for another login and is still cached.
NotFoundLeavesCacheWitness ==
    /\ ret.op = "get" /\ ret.err = "not_found" /\ ret.tokens = "nil"
    /\ payloadCache # Nil /\ clock < cacheExpiry
    /\ "alice" \in DOMAIN heap[payloadCache]

(***************************************************************************)
(* Properties of the store calls of Part III.                              *)
(***************************************************************************)
\* C16: GetAllProjectFamilies, called after UpsertProjectFamilies(F) has
\* returned without a failure of the database, returns the multiset of the
\* elements of F, whatever the table held before and also when F holds an
\* element twice.
FamiliesRoundTrip ==
    [][(/\ reply.op = "UpsertProjectFamilies"
        /\ reply.err # "unavailable"
        /\ reply'.op = "GetAllProjectFamilies")
          => reply'.families = Multiset(reply.families)
      ]_vars

\* C17: the table changes only when the transaction commits, and then to
\* the rows of the whole list; a call that returns an error leaves the
\* table as it was when the call began; a read returns the rows from
\* before the call or the rows of the whole list.
FamiliesAtomic ==
    [][/\ project_families' # project_families
          => /\ tx.pc = "commit"
             /\ project_families' = {tx.families[i] : i \in DOMAIN tx.families}
             /\ reply'.op = "UpsertProjectFamilies" /\ reply'.err = "nil"
       /\ (reply'.op = "UpsertProjectFamilies" /\ tx.pc # "idle" /\ tx'.pc = "idle"
             /\ reply'.err # "nil")
          => project_families' = project_families
       /\ (reply'.op = "GetAllProjectFamilies" /\ tx.pc \in {"insert", "commit"})
          => BagToSet(reply'.families) = project_families
      ]_vars

\* C17 witness: a read has returned while the transaction had cleared its
\* rows and inserted a part of its list, and the table still holds the
\* rows from before the call.
FamiliesAtomicWitness ==
    /\ tx.pc = "insert"
    /\ tx.rows # {} /\ tx.rows # project_families
    /\ project_families # {}
    /\ reply.op = "GetAllProjectFamilies"
    /\ BagToSet(reply.families) = project_families

\* C18: an IsInWhitelist call that the database answered returns true
\* exactly when the table holds, for the reviewer asked for, a PROJECT row
\* named as the project or a FAMILY row named as the family label, and
\* false without an error otherwise; rows of other reviewers and rows whose
\* type does not go with the name they match do not count.
WhitelistIff ==
    reply.op = "IsInWhitelist"
       => /\ reply.err = "nil" =>
                (reply.value <=>
                    \E e \in user_project_whitelist :
                        /\ e.reviewer_login = reply.reviewer_login
                        /\ \/ e.entry_type = "PROJECT" /\ e.name = reply.project_name
                           \/ e.entry_type = "FAMILY" /\ e.name = reply.family_label)
          /\ reply.err # "nil" => reply.value = FALSE

\* C18 witness: alice is asked for with project p1 and family f1 and the
\* answer is false without error, while the table holds bob's PROJECT row
\* p1, alice's PROJECT row f1 and alice's FAMILY row p1.
WhitelistIffWitness ==
    /\ reply = [op |-> "IsInWhitelist", err |-> "nil", reviewer_login |-> "alice",
                project_name |-> "p1", family_label |-> "f1", value |-> FALSE]
    /\ user_project_whitelist =
          { [reviewer_login |-> "bob", entry_type |-> "PROJECT", name |-> "p1"],
            [reviewer_login |-> "alice", entry_type |-> "PROJECT", name |-> "f1"],
            [reviewer_login |-> "alice", entry_type |-> "FAMILY", name |-> "p1"] }

\* C19: no calendar slot has two review requests in an intermediate status.
OneActivePerSlot ==
    \A slot \in Slots :
        Cardinality({ id \in GetReviewRequestByCalendarSlotID(review_requests, slot) :
                         IsIntermediateStatus(review_requests[id].status) }) <= 1

\* C20: a request is created in UNKNOWN_PROJECT_REVIEW, its status changes
\* along the edges of the lifecycle only, and every status in the table is
\* one of the ten valid values.
StatusEdgesOnly ==
    [][\A id \in DOMAIN review_requests' :
          /\ IsValidStatus(review_requests'[id].status)
          /\ id \notin DOMAIN review_requests
                => review_requests'[id].status = StatusUnknownProjectReview
          /\ (id \in DOMAIN review_requests
                /\ review_requests'[id].status # review_requests[id].status)
                => <<review_requests[id].status, review_requests'[id].status>> \in
                      { <<StatusUnknownProjectReview, StatusKnownProjectReview>>,
                        <<StatusKnownProjectReview, StatusWhitelisted>>,
                        <<StatusKnownProjectReview, StatusNotWhitelisted>>,
                        <<StatusNotWhitelisted, StatusWhitelisted>>,
                        <<StatusNotWhitelisted, StatusAutoCancelledNotWhitelisted>>,
                        <<StatusWhitelisted, StatusNeedToApprove>>,
                        <<StatusNeedToApprove, StatusWaitingForApprove>>,
                        <<StatusWaitingForApprove, StatusApproved>>,
                        <<StatusWaitingForApprove, StatusCancelled>>,
                        <<StatusWaitingForApprove, StatusAutoCancelled>> }
      ]_vars

FinalClearsDeadlines ==
    \A id \in DOMAIN review_requests :
        IsFinalStatus(review_requests[id].status)
           => /\ review_requests[id].decision_deadline = Null
              /\ review_requests[id].non_whitelist_cancel_at = Null

\* C23: once clientOnce has run, the client is not built again, and a
\* GetClient call made when the first InitClient failed returns the error
\* to its caller (here with every other caller idle, so that the step is
\* this caller's).
InitOutcomeRepeats ==
    [][/\ (clientOnce /\ \A c \in Callers : cpc'[c] # "dead") => client' = client
       /\ \A c \in Callers :
             (/\ cpc[c] = "miss" /\ client = "nil" /\ clientOnce
              /\ \A o \in Callers \ {c} : cpc[o] = "idle"
              /\ cpc'[c] # "miss")
                => /\ ret'.caller = c
                   /\ ret'.err = "init"
                   /\ cpc'[c] = "idle"
      ]_vars

(***************************************************************************)
(* Properties of the pure functions.                                       *)
(***************************************************************************)
\* C24: for every review start and every shift of zero or more minutes,
\* CalculateDecisionDeadline returns the review start less the shift; the
\* result is a function of the two arguments.
DeadlineIsStartLessShift ==
    (reply.op = "CalculateDecisionDeadline" /\ reply.shiftMinutes >= 0)
       => reply.value = reply.reviewStartTime - reply.shiftMinutes * Minute

\* C25: ShouldShiftSlot is true exactly when the current time plus the
\* threshold is the slot start or later.
ShiftIffWithinThreshold ==
    reply.op = "ShouldShiftSlot"
       => (reply.value <=> now + reply.thresholdMinutes * Minute >= reply.slotStartTime)

\* C26: DurationInMinutes, CalculateSlotDuration and MinutesUntil return the
\* whole minutes of the duration, the fraction dropped toward zero.
MinutesTruncate ==
    reply.op \in {"DurationInMinutes", "CalculateSlotDuration", "MinutesUntil"}
       => /\ reply.d >= 0 =>
                /\ reply.value * Minute <= reply.d
                /\ reply.d < (reply.value + 1) * Minute
          /\ reply.d < 0 =>
                /\ reply.value * Minute >= reply.d
                /\ reply.d > (reply.value - 1) * Minute

\* C27: a string is a valid status exactly when it is intermediate or final
\* and not both; no string is both; a string that is none of the ten status
\* constants, the empty string among them, is neither and is not valid.
StatusPartition ==
    reply.op = "Status"
       => /\ reply.valid <=> (reply.intermediate # reply.final)
          /\ ~(reply.intermediate /\ reply.final)
          /\ reply.status \notin
                {"UNKNOWN_PROJECT_REVIEW", "KNOWN_PROJECT_REVIEW",
                 "WHITELISTED", "NOT_WHITELISTED", "NEED_TO_APPROVE",
                 "WAITING_FOR_APPROVE", "APPROVED", "CANCELLED",
                 "AUTO_CANCELLED", "AUTO_CANCELLED_NOT_WHITELISTED"}
                => ~reply.valid /\ ~reply.intermediate /\ ~reply.final

\* The predicates were asked about the last of the ten constants.
StatusPartitionWitness ==
    /\ reply.op = "Status"
    /\ reply.status = "AUTO_CANCELLED_NOT_WHITELISTED"
    /\ reply.valid /\ reply.final /\ ~reply.intermediate

\* C28: parsing what FormatCallbackData made of APPROVE or DECLINE and any
\* request id gives that action and that id back; ParseCallbackData rejects
\* data with no ':' and data whose part before the first ':' is not exactly
\* APPROVE or DECLINE.
CallbackRoundTrip ==
    /\ reply.op = "ParseFormatted"
          => reply.parsed = [action |-> reply.action,
                             reviewRequestID |-> reply.reviewRequestID,
                             err |-> "nil"]
    /\ reply.op = "ParseCallbackData"
          => LET data == reply.data
                 colons == {i \in 1..Len(data) : data[i] = ":"}
                 first == CHOOSE i \in colons : \A j \in colons : i <= j
             IN  (colons = {} \/ SubSeq(data, 1, first - 1) \notin {APPROVE, DECLINE})
                    => reply.parsed.err # "nil"

\* An id that itself holds a ':' came back from the round trip.
CallbackRoundTripWitness ==
    /\ reply.op = "ParseFormatted"
    /\ reply.reviewRequestID = <<"a", ":">>
    /\ reply.parsed.err = "nil"

\* C29: GetExpiredWaitingForApprove returns the requests that are
\* WAITING_FOR_APPROVE with a decision deadline at or before now, and
\* GetExpiredNotWhitelisted those that are NOT_WHITELISTED with a cancel time
\* at or before now; each returns all of them and no request of another
\* status, with a later deadline or with no deadline.
SelectsExactlyDue ==
    \A id \in DOMAIN review_requests :
       LET r == review_requests[id]
       IN  /\ reply.op = "GetExpiredWaitingForApprove"
                => /\ (r.status = "WAITING_FOR_APPROVE"
                          /\ r.decision_deadline \in Times
                          /\ r.decision_deadline <= now) => id \in reply.requests
                   /\ r.status # "WAITING_FOR_APPROVE" => id \notin reply.requests
                   /\ r.decision_deadline = Null => id \notin reply.requests
                   /\ r.decision_deadline > now => id \notin reply.requests
           /\ reply.op = "GetExpiredNotWhitelisted"
                => /\ (r.status = "NOT_WHITELISTED"
                          /\ r.non_whitelist_cancel_at \in Times
                          /\ r.non_whitelist_cancel_at <= now) => id \in reply.requests
                   /\ r.status # "NOT_WHITELISTED" => id \notin reply.requests
                   /\ r.non_whitelist_cancel_at = Null => id \notin reply.requests
                   /\ r.non_whitelist_cancel_at > now => id \notin reply.requests

\* The query returned a request whose cancel time is now and left out a
\* NOT_WHITELISTED request that has no cancel time.
SelectsExactlyDueWitness ==
    /\ reply.op = "GetExpiredNotWhitelisted"
    /\ review_requests[1].status = "NOT_WHITELISTED"
    /\ review_requests[1].non_whitelist_cancel_at = now
    /\ review_requests[2].status = "NOT_WHITELISTED"
    /\ review_requests[2].non_whitelist_cancel_at = Null
    /\ reply.requests = {1}

\* C30: when a slot has one request that is not final and its other
\* requests are final, GetReviewRequestByCalendarSlotID returns the one that
\* is not final; it reports not found only when the slot has no request.
UniqueActiveLookup ==
    [][(reply' # reply /\ reply'.op = "GetReviewRequestByCalendarSlotID")
          => LET rows == { id \in DOMAIN review_requests :
                             review_requests[id].calendar_slot_id =
                                reply'.calendar_slot_id }
                 active == { id \in rows :
                               review_requests[id].status \notin
                                  {"APPROVED", "CANCELLED", "AUTO_CANCELLED",
                                   "AUTO_CANCELLED_NOT_WHITELISTED"} }
             IN  /\ Cardinality(active) = 1
                       => reply'.err = "nil" /\ reply'.id \in active
                 /\ reply'.err # "nil" => rows = {}
      ]_vars

\* C31: a request whose status is APPROVED has a decided_at, and a
\* decided_at that is set is not made NULL by a later status update of the
\* request.
DecidedAtKept ==
    [][\A id \in DOMAIN review_requests :
          /\ review_requests'[id].status = "APPROVED"
                => review_requests'[id].decided_at # Null
          /\ review_requests[id].decided_at # Null
                => review_requests'[id].decided_at # Null
      ]_vars

ApproveOrCancelNotBoth ==
    [][\A w \in Workers :
          (pc[w] \in {"approve", "sweep_waiting"} /\ Writes(w))
          => LET id == Written(w).id
                 old == review_requests[id]
                 new == review_requests'[id]
             IN  /\ old.status \in {"APPROVED", "AUTO_CANCELLED"}
                       => new.status = old.status
                 /\ new.status = "APPROVED"
                       => cancelCalls'[new.calendar_slot_id] = 0
      ]_vars

\* C34: a fetch that was under way when InvalidateCache ran does not put
\* its payload into the cache afterwards.
StaleFetchNeverLands ==
    [][\A c \in Callers :
          (ret.op = "invalidate" /\ cpc[c] = "fetching")
          => ~(cpc'[c] = "have" /\ payloadCache' = call'[c].pl)
      ]_vars

\* C35: concurrent GetUserTokens, StoreUserTokens, DeleteUserTokens,
\* InvalidateCache and SetPayloadCache calls do not deadlock: cacheMutex is
\* held only inside a section that ends with its release, never by a call
\* that has returned or is waiting for the secret store, so some call under
\* way can always take a step; and when an InvalidateCache call ends the
\* cache is empty.
MutexAlwaysReleased ==
    LET Step == \E c \in Callers :
                   \/ RLock(c) \/ CheckHit(c) \/ CheckMiss(c) \/ MissFails(c)
                   \/ MissFetched(c) \/ Lock(c) \/ StoreFetched(c) \/ ReadUsers(c)
                   \/ BeginMapWrite(c) \/ EndMapWrite(c) \/ DropLocked(c)
                   \/ InvalidateLocked(c) \/ \E ttl \in TTLs : SetLocked(c, ttl)
    IN  /\ \A c \in Callers :
              /\ c \in cacheMutex.readers => cpc[c] = "rlocked"
              /\ cacheMutex.writer = c
                    => cpc[c] \in {"locked_fetched", "locked_drop", "locked_cache"}
        /\ (\E c \in Callers : cpc[c] \notin {"idle", "dead"}) => ENABLED Step
        /\ ret.op = "invalidate" => payloadCache = Nil /\ cacheExpiry = ZeroTime

\* A call waits for the secret store while another one holds the write lock
\* and a payload is cached.
MutexAlwaysReleasedWitness ==
    /\ cpc["c1"] = "miss"
    /\ cacheMutex.writer = "c2"
    /\ cpc["c2"] = "locked_cache"
    /\ call["c2"].op = "invalidate"
    /\ payloadCache # Nil

\* C36: RemoveFromWhitelist(reviewerLogin, name) returns no error and
\* leaves the table without the entries of that reviewer with that name, of
\* either entry type, and with every other entry it held; when no entry
\* matches, the table is as it was.
RemoveTakesBothTypes ==
    reply.op = "RemoveFromWhitelist"
       => /\ reply.err = "nil"
          /\ \A e \in AllWhitelistEntries :
                e \in user_project_whitelist
                   <=> /\ e \in reply.before
                       /\ ~(e.reviewer_login = reply.reviewer_login /\ e.name = reply.name)
          /\ (\A e \in reply.before :
                 ~(e.reviewer_login = reply.reviewer_login /\ e.name = reply.name))
                => user_project_whitelist = reply.before

\* The name was in the table as a project and as a family of the reviewer,
\* beside an entry of another name and one of another reviewer.
RemoveTakesBothTypesWitness ==
    /\ reply.op = "RemoveFromWhitelist"
    /\ reply.reviewer_login = "alice"
    /\ reply.name = "p1"
    /\ reply.before =
          { [reviewer_login |-> "alice", entry_type |-> "PROJECT", name |-> "p1"],
            [reviewer_login |-> "alice", entry_type |-> "FAMILY", name |-> "p1"],
            [reviewer_login |-> "alice", entry_type |-> "PROJECT", name |-> "f1"],
            [reviewer_login |-> "bob", entry_type |-> "FAMILY", name |-> "p1"] }
    /\ user_project_whitelist =
          { [reviewer_login |-> "alice", entry_type |-> "PROJECT", name |-> "f1"],
            [reviewer_login |-> "bob", entry_type |-> "FAMILY", name |-> "p1"] }

\* C37: after a CreateDefaultUserSettings(login) that returned nil the row
\* of login holds the defaults 20, 5, true, true, 25, 15, 15 whatever the
\* table held before, the rows of the other reviewers are the rows they had
\* before, and in every state user_settings has at most one row per
\* reviewer.
DefaultsOverwriteSettings ==
    /\ \A r1 \in user_settings, r2 \in user_settings :
          r1.reviewer_login = r2.reviewer_login => r1 = r2
    /\ (reply.op = "CreateDefaultUserSettings" /\ reply.err = "nil") =>
          /\ \E r \in user_settings :
                /\ r.reviewer_login = reply.reviewer_login
                /\ r.response_deadline_shift_minutes = 20
                /\ r.non_whitelist_cancel_delay_minutes = 5
                /\ r.notify_whitelist_timeout = TRUE
                /\ r.notify_non_whitelist_cancel = TRUE
                /\ r.slot_shift_threshold_minutes = 25
                /\ r.slot_shift_duration_minutes = 15
                /\ r.cleanup_durations_minutes = 15
          /\ {r \in user_settings : r.reviewer_login # reply.reviewer_login}
                = {r \in reply.before : r.reviewer_login # reply.reviewer_login}

\* C37 witness: CreateDefaultUserSettings has returned nil for a reviewer
\* whose row was customised before the call, while another reviewer has
\* a customised row of their own.
DefaultsOverwriteSettingsWitness ==
    /\ reply.op = "CreateDefaultUserSettings"
    /\ reply.err = "nil"
    /\ \E r \in reply.before :
          /\ r.reviewer_login = reply.reviewer_login
          /\ r.response_deadline_shift_minutes = 30
          /\ r.notify_whitelist_timeout = FALSE
    /\ \E r \in user_settings :
          /\ r.reviewer_login # reply.reviewer_login
          /\ r.response_deadline_shift_minutes = 30

\* C38: an InitSchema call returns nil only when the tables are created.
InitSchemaReportsAttempt ==
    (reply.op = "InitSchema" /\ reply.err = "nil") => tablesCreated

====
